---- MODULE Spec2Model ----
(***************************************************************************)
(* Model of the teacher / math agent orchestration of the backend:         *)
(*   app/services/teacher_agent.py  (intent router, content loops,         *)
(*                                   fallback generators, orchestrator)    *)
(*   app/services/math_agent.py     (sandbox tools, math loop)             *)
(*   app/schemas/content.py         (artifact validators)                  *)
(* and of the presence bookkeeping of the realtime gateway:                *)
(*   app/realtime/gateway.py        (connect, disconnect)                  *)
(*                                                                         *)
(* Conventions.                                                            *)
(*   Optional[T] is a set with at most one element: {} is None.            *)
(*   A text is a sequence of segments (records with a field seg).          *)
(*   A JSON text is a record with a field syntax; json.loads of it either  *)
(*   fails or yields a tagged JSON value ([t |-> "obj", v |-> record]).    *)
(*   Confidences are in hundredths (60 is 0.6).                            *)
(***************************************************************************)
EXTENDS Integers, Sequences, FiniteSets, TLC

VARIABLES
    entry,          \* which entry point was invoked: "teacher", "math", or a
                    \* tool ("sandbox") or tool executor ("executor") on its own
    provider,       \* the provider argument of the invocation
    apiKey,         \* settings.OPENAI_API_KEY is set
    messages,       \* the caller's messages list
    argument,       \* the argument of a tool or tool executor called on its own
    context,        \* the caller's context text (teacher entry)
    pc,             \* position of the invocation (its pending await)
    intent_result,  \* IntentResult of classify_intent ({} before it returns)
    kind,           \* artifact kind of the content loop in use ("none" outside)
    max_iterations, \* max_iterations of the loop in use
    iteration,      \* loop variable of the for statement
    full_messages,  \* the loop's message sequence
    artifact,       \* quiz_json / lesson_json / exercise_json / presentation_json
    last_content,   \* math loop: message.content of the last response
    results,        \* generate_with_web_search: the search results
    result,         \* the returned reply ({} while running or when raised)
    calls,          \* generation-backend calls issued so far
    loopCalls,      \* of these, calls issued by the tool-augmented loop
    lastRequest,    \* the most recent backend request ({} before the first)
    SAFE_MATH_FUNCTIONS, \* math_agent.py: the module-level table of the calculator
    connected_users,     \* gateway.py: sid -> user info
    session_presence,    \* gateway.py: session_id -> set of sids
    user_activities,     \* gateway.py: student_id -> activity info
    student_nicknames,   \* gateway.py: student_id -> nickname
    hist            \* history of the run (what happened, for the properties)

vars == <<entry, provider, apiKey, messages, argument, context, pc, intent_result, kind,
          max_iterations, iteration, full_messages, artifact, last_content,
          results, result, calls, loopCalls, lastRequest, SAFE_MATH_FUNCTIONS,
          connected_users, session_presence, user_activities, student_nicknames, hist>>

\* the module-level dicts of the gateway
gatewayVars == <<connected_users, session_presence, user_activities, student_nicknames>>

-----------------------------------------------------------------------------
(* Bounds of the model *)

\* tool-call requests a backend may issue during one invocation
MaxToolCalls == 3
\* largest max_iterations argument tried for run_math_agent
MaxMathIterations == 3

-----------------------------------------------------------------------------
(* Optional values, texts *)

None == {}
Some(x) == {x}
TheVal(o) == CHOOSE x \in o : TRUE

Prose(s) == [seg |-> "prose", s |-> s]
Num(n) == [seg |-> "num", n |-> n]
Fence(tag, body) == [seg |-> "fence", tag |-> tag, body |-> body]
Marker(s) == [seg |-> "marker", s |-> s]
JsonSeg(body) == [seg |-> "json", body |-> body]
Space == [seg |-> "space"]

\* Python values whose type matters: a str, an int, a member of a str enum
PyStr(text) == [py |-> "str", text |-> text]
PyInt(n) == [py |-> "int", v |-> n]
PyEnum(enum, value) == [py |-> enum, text |-> value]

\* (tag in text) for a fence tag; a tag is the fence mark, written <fence>,
\* and the language that follows it
HasFence(text, tag) ==
    \E i \in 1..Len(text) : text[i].seg = "fence" /\ text[i].tag = tag

\* (word in text) for a word the code searches for
HasMarker(text, word) ==
    \E i \in 1..Len(text) : text[i].seg = "marker" /\ text[i].s = word

-----------------------------------------------------------------------------
(* JSON texts *)

JsonGarbage == [syntax |-> "garbage"]
JsonObj(rec) == [t |-> "obj", v |-> rec]
JsonArr == [t |-> "arr"]
JsonText(val) == [syntax |-> "json", val |-> val]

\* json.loads: fails on text that is not JSON
JsonLoads(raw) ==
    IF raw.syntax = "json" THEN [ok |-> TRUE, val |-> raw.val]
    ELSE [ok |-> FALSE]

\* the JSON value json.dumps writes for a value of a dict: a member of a
\* str enum is written as the string it is
JsonEncoded(f, val) ==
    IF f = "difficulty" THEN {PyStr(d.text) : d \in val} ELSE val

\* a json.dumps that writes a member of an enum as its qualified name
JsonDumpsByName(rec) ==
    JsonText(JsonObj([f \in DOMAIN rec |->
        IF f = "difficulty" THEN {PyStr("DifficultyLevel." \o d.text) : d \in rec[f]}
        ELSE rec[f]]))

\* json.dumps of a dict
JsonDumps(rec) == JsonText(JsonObj([f \in DOMAIN rec |-> JsonEncoded(f, rec[f])]))

IsObj(val) == val.t = "obj"

-----------------------------------------------------------------------------
(* app/schemas/content.py: the artifact validators.                        *)
(* A JSON object is a record holding the keys that are present; a value,   *)
(* when present, has the JSON type of its field (Optional fields may hold  *)
(* None).  Each validator is total: it accepts and normalizes, or rejects. *)

Get(o, f, default) == IF f \in DOMAIN o THEN o[f] ELSE default
Required(o, fs) == fs \subseteq DOMAIN o

TeacherIntents ==
    {"quiz_generation", "lesson_generation", "exercise_generation",
     "presentation_generation", "web_search", "analytics", "document_help"}

\* IntentResult(intent=..., confidence=..., extracted_params=...): pydantic
\* rejects an intent outside TeacherIntent and a confidence outside [0, 1];
\* keyword arguments that are no field of the model are ignored.
IntentResultValid(intent, confidence) ==
    /\ intent \in TeacherIntents
    /\ confidence >= 0
    /\ confidence <= 100

IntentResult(intent, confidence, extracted_params) ==
    [intent |-> intent, confidence |-> confidence,
     extracted_params |-> extracted_params]

\* QuizQuestion without the validator of correctIndex
QuizQuestionValidAnyIndex(q) ==
    /\ Required(q, {"question", "options", "correctIndex"})
    /\ Len(q.question) >= 5
    /\ Len(q.options) >= 2
    /\ Len(q.options) <= 6
    /\ q.correctIndex >= 0
    /\ \A p \in Get(q, "points", Some(1)) : p >= 0

QuizQuestionValid(q) ==
    /\ Required(q, {"question", "options", "correctIndex"})
    /\ Len(q.question) >= 5
    /\ Len(q.options) >= 2
    /\ Len(q.options) <= 6
    /\ q.correctIndex >= 0
    /\ q.correctIndex < Len(q.options)
    /\ \A p \in Get(q, "points", Some(1)) : p >= 0

QuizQuestionDump(q) ==
    [question |-> q.question, options |-> q.options,
     correctIndex |-> q.correctIndex,
     explanation |-> Get(q, "explanation", None),
     points |-> Get(q, "points", Some(1))]

\* q.points or 1
PointsOr1(q) == IF q.points = None \/ q.points = Some(0) THEN 1 ELSE TheVal(q.points)

RECURSIVE SumPoints(_)
SumPoints(qs) == IF qs = <<>> THEN 0 ELSE PointsOr1(Head(qs)) + SumPoints(Tail(qs))

\* QuizData.calculate_total_points
calculate_total_points(v, questions) ==
    IF v = None THEN Some(SumPoints(questions)) ELSE v

QuizDataValid(a) ==
    /\ Required(a, {"title", "description", "questions"})
    /\ Len(a.title) >= 3
    /\ Len(a.title) <= 255
    /\ Len(a.description) >= 5
    /\ Len(a.questions) >= 1
    /\ \A i \in 1..Len(a.questions) : QuizQuestionValid(a.questions[i])
    /\ \A p \in Get(a, "total_points", None) : p >= 0
    /\ \A m \in Get(a, "time_limit_minutes", None) : m >= 1 /\ m <= 300

QuizDataDump(a) ==
    LET qs == [i \in 1..Len(a.questions) |-> QuizQuestionDump(a.questions[i])]
    IN  [title |-> a.title, description |-> a.description, questions |-> qs,
         total_points |-> calculate_total_points(Get(a, "total_points", None), qs),
         time_limit_minutes |-> Get(a, "time_limit_minutes", None)]

LessonSectionValid(s) ==
    /\ Required(s, {"title", "content"})
    /\ Len(s.title) >= 3
    /\ Len(s.content) >= 10
    /\ \A d \in Get(s, "duration_minutes", None) : d >= 1 /\ d <= 120

LessonSectionDump(s) ==
    [title |-> s.title, content |-> s.content,
     duration_minutes |-> Get(s, "duration_minutes", None)]

LessonDataValid(a) ==
    /\ Required(a, {"title", "description", "objectives", "sections"})
    /\ Len(a.title) >= 3
    /\ Len(a.title) <= 255
    /\ Len(a.description) >= 5
    /\ Len(a.objectives) >= 1
    /\ Len(a.sections) >= 1
    /\ \A i \in 1..Len(a.sections) : LessonSectionValid(a.sections[i])

LessonDataDump(a) ==
    [title |-> a.title, description |-> a.description,
     objectives |-> a.objectives,
     sections |-> [i \in 1..Len(a.sections) |-> LessonSectionDump(a.sections[i])],
     activities |-> Get(a, "activities", Some(<<>>)),
     resources |-> Get(a, "resources", Some(<<>>))]

DifficultyLevels == {"easy", "medium", "hard"}

ExerciseDataValid(a) ==
    /\ Required(a, {"title", "description", "instructions"})
    /\ Len(a.title) >= 3
    /\ Len(a.title) <= 255
    /\ Len(a.description) >= 5
    /\ Len(a.instructions) >= 10
    /\ \A d \in Get(a, "difficulty", None) : d.text \in DifficultyLevels

\* DifficultyLevel is a str enum: the field holds a member, whatever str
\* of the same value was given
ExerciseDataDump(a) ==
    [title |-> a.title, description |-> a.description,
     instructions |-> a.instructions,
     examples |-> Get(a, "examples", Some(<<>>)),
     solution |-> Get(a, "solution", None),
     difficulty |-> {PyEnum("DifficultyLevel", d.text) :
                        d \in Get(a, "difficulty", Some(PyStr("medium")))},
     hint |-> Get(a, "hint", None)]

PresentationSlideValid(s) ==
    /\ Required(s, {"order", "title", "content"})
    /\ s.order >= 0
    /\ Len(s.title) >= 1
    /\ Len(s.title) <= 255
    /\ Len(s.content) >= 1

PresentationSlideDump(s) ==
    [order |-> s.order, title |-> s.title, content |-> s.content,
     speaker_notes |-> Get(s, "speaker_notes", None)]

PresentationDataValid(a) ==
    /\ Required(a, {"title", "slides"})
    /\ Len(a.title) >= 3
    /\ Len(a.title) <= 255
    /\ Len(a.slides) >= 1
    /\ \A i \in 1..Len(a.slides) : PresentationSlideValid(a.slides[i])

PresentationDataDump(a) ==
    [title |-> a.title, description |-> Get(a, "description", None),
     slides |-> [i \in 1..Len(a.slides) |-> PresentationSlideDump(a.slides[i])],
     theme |-> Get(a, "theme", Some("default"))]

-----------------------------------------------------------------------------
(* teacher_agent.py: the tool executors.  Each returns the validated dump  *)
(* or raises ValueError; arguments that are no JSON object make the call   *)
(* constructor call raise, which is converted to ValueError as well.       *)

Raised == [ok |-> FALSE]
Returned(data) == [ok |-> TRUE, data |-> data]

execute_create_quiz(args) ==
    IF IsObj(args) /\ QuizDataValid(args.v)
    THEN Returned(QuizDataDump(args.v)) ELSE Raised

execute_create_lesson(args) ==
    IF IsObj(args) /\ LessonDataValid(args.v)
    THEN Returned(LessonDataDump(args.v)) ELSE Raised

execute_create_exercise(args) ==
    IF IsObj(args) /\ ExerciseDataValid(args.v)
    THEN Returned(ExerciseDataDump(args.v)) ELSE Raised

execute_create_presentation(args) ==
    IF IsObj(args) /\ PresentationDataValid(args.v)
    THEN Returned(PresentationDataDump(args.v)) ELSE Raised

Kinds == {"quiz", "lesson", "exercise", "presentation"}

\* the fields each schema declares without a default
RequiredKeys(k) ==
    CASE k = "quiz" -> {"title", "description", "questions"}
      [] k = "lesson" -> {"title", "description", "objectives", "sections"}
      [] k = "exercise" -> {"title", "description", "instructions"}
      [] k = "presentation" -> {"title", "slides"}

\* the executor each content loop calls for its own tool
ExecuteCreate(k, args) ==
    CASE k = "quiz" -> execute_create_quiz(args)
      [] k = "lesson" -> execute_create_lesson(args)
      [] k = "exercise" -> execute_create_exercise(args)
      [] k = "presentation" -> execute_create_presentation(args)

-----------------------------------------------------------------------------
(* teacher_agent.py: per-kind constants of the four content loops          *)

ToolName(k) ==
    CASE k = "quiz" -> "create_quiz"
      [] k = "lesson" -> "create_lesson"
      [] k = "exercise" -> "create_exercise"
      [] k = "presentation" -> "create_presentation"

FenceTag(k) ==
    CASE k = "quiz" -> "<fence>quiz_data"
      [] k = "lesson" -> "<fence>lesson_data"
      [] k = "exercise" -> "<fence>exercise_data"
      [] k = "presentation" -> "<fence>presentation_data"

AgentPrompt(k) ==
    CASE k = "quiz" -> "QUIZ_AGENT_PROMPT"
      [] k = "lesson" -> "LESSON_AGENT_PROMPT"
      [] k = "exercise" -> "EXERCISE_AGENT_PROMPT"
      [] k = "presentation" -> "PRESENTATION_AGENT_PROMPT"

ToolManifest(k) ==
    CASE k = "quiz" -> "QUIZ_TOOLS"
      [] k = "lesson" -> "LESSON_TOOLS"
      [] k = "exercise" -> "EXERCISE_TOOLS"
      [] k = "presentation" -> "PRESENTATION_TOOLS"

\* the text returned when the iterations are used up with an artifact
GeneratedPrefix(k) ==
    CASE k = "quiz" -> "Quiz generato:"
      [] k = "lesson" -> "Lezione generata:"
      [] k = "exercise" -> "Esercizio generato:"
      [] k = "presentation" -> "Presentazione generata:"

\* ... and without one
Apology(k) ==
    CASE k = "quiz" -> "Mi dispiace, non sono riuscito a completare la generazione del quiz."
      [] k = "lesson" -> "Mi dispiace, non sono riuscito a completare la generazione della lezione."
      [] k = "exercise" -> "Mi dispiace, non sono riuscito a completare la generazione dell'esercizio."
      [] k = "presentation" -> "Mi dispiace, non sono riuscito a completare la generazione della presentazione."

\* tool_output of a successful create call
SuccessOutput(k, data) ==
    CASE k = "quiz" ->
            <<Prose("Quiz creato con successo:"), Prose(data.title),
              Prose("con"), Num(Len(data.questions)), Prose("domande")>>
      [] k = "lesson" ->
            <<Prose("Lezione creata:"), Prose(data.title),
              Prose("con"), Num(Len(data.sections)), Prose("sezioni")>>
      [] k = "exercise" ->
            <<Prose("Esercizio creato:"), Prose(data.title)>>
      [] k = "presentation" ->
            <<Prose("Presentazione creata:"), Prose(data.title),
              Prose("con"), Num(Len(data.slides)), Prose("slide")>>

UnknownToolOutput(name) == <<Prose("Tool sconosciuto:"), Prose(name)>>

\* a default that allows one iteration more
OneMoreIteration == 3 + 1

\* default of the max_iterations parameter of the four content loops
DefaultMaxIterations == 3

\* run_teacher_agent: a confidence below 0.6 is routed to analytics
ConfidenceFloor == 60

IntentOfKind(k) ==
    CASE k = "quiz" -> "quiz_generation"
      [] k = "lesson" -> "lesson_generation"
      [] k = "exercise" -> "exercise_generation"
      [] k = "presentation" -> "presentation_generation"

KindOfIntent(i) ==
    CASE i = "quiz_generation" -> "quiz"
      [] i = "lesson_generation" -> "lesson"
      [] i = "exercise_generation" -> "exercise"
      [] i = "presentation_generation" -> "presentation"
      [] OTHER -> "none"

-----------------------------------------------------------------------------
(* Inputs: the tool-call arguments a backend sends                         *)

Q1 == [question |-> "Quanto fa 1/2 + 1/4?", options |-> <<"3/4", "2/6">>,
       correctIndex |-> 0]
Q2 == [question |-> "Quale frazione equivale a 0,5?",
       options |-> <<"1/3", "2/3", "1/2">>, correctIndex |-> 2,
       explanation |-> Some("0,5 = 1/2"), points |-> Some(2)]
QBad == [question |-> "Quanto fa 2/3 - 1/3?", options |-> <<"1/3", "1">>,
         correctIndex |-> 2]

ValidArgsA(k) ==
    CASE k = "quiz" ->
            [title |-> "Frazioni", description |-> "Quiz sulle frazioni",
             questions |-> <<Q1>>]
      [] k = "lesson" ->
            [title |-> "Le frazioni", description |-> "Introduzione",
             objectives |-> <<"Riconoscere una frazione">>,
             sections |-> <<[title |-> "Definizione",
                             content |-> "Una frazione e' una parte."]>>]
      [] k = "exercise" ->
            [title |-> "Somme", description |-> "Somma di frazioni",
             instructions |-> "Calcola 1/2 + 1/4."]
      [] k = "presentation" ->
            [title |-> "Frazioni",
             slides |-> <<[order |-> 0, title |-> "Intro", content |-> "- parti"]>>]

ValidArgsB(k) ==
    CASE k = "quiz" ->
            [title |-> "Frazioni 2", description |-> "Seconda verifica",
             questions |-> <<Q1, Q2>>, time_limit_minutes |-> Some(20)]
      [] k = "lesson" ->
            [title |-> "Frazioni equivalenti", description |-> "Seconda lezione",
             objectives |-> <<"Semplificare">>,
             sections |-> <<[title |-> "Esempi",
                             content |-> "2/4 equivale a 1/2.",
                             duration_minutes |-> Some(15)]>>,
             activities |-> Some(<<"Gioco delle carte">>)]
      [] k = "exercise" ->
            [title |-> "Differenze", description |-> "Sottrazioni",
             instructions |-> "Calcola 3/4 - 1/4.", difficulty |-> Some(PyStr("hard")),
             solution |-> Some("1/2")]
      [] k = "presentation" ->
            [title |-> "Frazioni 2", description |-> Some("Seconda parte"),
             slides |-> <<[order |-> 0, title |-> "Intro", content |-> "- parti"],
                          [order |-> 1, title |-> "Fine", content |-> "- riepilogo",
                           speaker_notes |-> Some("chiudere")]>>]

\* arguments that violate one constraint of the schema
InvalidArgs(k) ==
    CASE k = "quiz" ->
            [title |-> "Frazioni", description |-> "Quiz sulle frazioni",
             questions |-> <<Q1, QBad>>]
      [] k = "lesson" ->
            [title |-> "Le frazioni", description |-> "Introduzione",
             objectives |-> <<>>,
             sections |-> <<[title |-> "Definizione",
                             content |-> "Una frazione e' una parte."]>>]
      [] k = "exercise" ->
            [title |-> "Somme", description |-> "Somma di frazioni",
             instructions |-> "Calcola.", difficulty |-> Some(PyStr("expert"))]
      [] k = "presentation" ->
            [title |-> "Frazioni", slides |-> <<>>]

EmptyObject == [f \in {} |-> 0]

\* the gateway module as loaded (lines 19-22): four empty dicts
GatewayLoaded ==
    /\ connected_users = EmptyObject
    /\ session_presence = EmptyObject
    /\ user_activities = EmptyObject
    /\ student_nicknames = EmptyObject

ToolArguments(k) ==
    {JsonText(JsonObj(ValidArgsA(k))), JsonText(JsonObj(ValidArgsB(k))),
     JsonText(JsonObj(InvalidArgs(k))), JsonGarbage, JsonText(JsonArr)}

\* the tool-call requests a backend may send to the loop of kind k
ContentRequests(k) ==
    {[name |-> ToolName(k), arguments |-> a] : a \in ToolArguments(k)}
    \cup {[name |-> "unknown_tool", arguments |-> JsonText(JsonObj(ValidArgsA(k)))]}

\* a fenced block written by the model itself
ModelJson == JsonText(JsonObj([title |-> "Bozza del modello"]))

\* message.content of a response without tool calls
FinalContents(k) ==
    {None, Some(<<Prose("Ecco il materiale richiesto.")>>),
     Some(<<Prose("Ecco il materiale richiesto."), Fence(FenceTag(k), ModelJson)>>)}

-----------------------------------------------------------------------------
(* teacher_agent.py: classify_intent                                       *)

\* mode_prefixes, in the order of the dict (the emoji are named in ASCII)
ModePrefixes ==
    << [prefixes |-> {"RICERCA WEB:", ":globe:"}, intent |-> "web_search"],
       [prefixes |-> {"CREA PRESENTAZIONE:", ":bar_chart:"},
        intent |-> "presentation_generation"],
       [prefixes |-> {"CREA QUIZ:", ":question:"}, intent |-> "quiz_generation"],
       [prefixes |-> {"CREA LEZIONE:", ":books:"}, intent |-> "lesson_generation"],
       [prefixes |-> {"GENERA REPORT:", ":chart_up:"}, intent |-> "analytics"],
       [prefixes |-> {"GENERA IMMAGINE:", ":art:"}, intent |-> "analytics"] >>

\* any(prefix in message for prefix in prefixes)
RowMatches(row, message) ==
    \E p \in ModePrefixes[row].prefixes : HasMarker(message, p)

MatchingRows(message) ==
    {row \in 1..Len(ModePrefixes) : RowMatches(row, message)}

\* the row at which the for loop over mode_prefixes returns
FirstMatchingRow(message) ==
    CHOOSE row \in MatchingRows(message) :
        \A other \in MatchingRows(message) : row <= other

\* clean_message.replace(prefix, "") for every prefix of the row
RemovePrefixes(message, prefixes) ==
    LET Keep(x) == ~(x.seg = "marker" /\ x.s \in prefixes)
    IN  SelectSeq(message, Keep)

RECURSIVE LStrip(_)
LStrip(text) ==
    IF text # <<>> /\ Head(text).seg = "space" THEN LStrip(Tail(text)) ELSE text

RECURSIVE RStrip(_)
RStrip(text) ==
    IF text # <<>> /\ text[Len(text)].seg = "space"
    THEN RStrip(SubSeq(text, 1, Len(text) - 1)) ELSE text

Strip(text) == RStrip(LStrip(text))

CleanMessage(message, row) ==
    Strip(RemovePrefixes(message, ModePrefixes[row].prefixes))

\* the forced branch: IntentResult(intent=intent, confidence=1.0, topic=...);
\* IntentResult has no field topic, so the keyword is dropped
\* a forced result that takes the last matching row of the table
ForcedIntentResultLastRow(message) ==
    IntentResult(ModePrefixes[CHOOSE row \in MatchingRows(message) :
                                 \A other \in MatchingRows(message) : row >= other].intent,
                 100, None)

ForcedIntentResult(message) ==
    IntentResult(ModePrefixes[FirstMatchingRow(message)].intent, 100, None)

\* a fallback that keeps a guess of the intent
ClassifyFallbackQuiz == IntentResult("quiz_generation", 50, None)

\* the except branch of classify_intent
ClassifyFallback == IntentResult("analytics", 50, None)

\* the text handed to json.loads: the content stripped, or, when it starts
\* with a code fence, what lies between the first two fence marks less a
\* leading "json"; the fence mark (three backquotes) is written <fence>
ClassifierJsonText(text) ==
    LET t == Strip(text)
    IN  IF t = <<>> THEN JsonGarbage
        ELSE IF t[1].seg = "fence"
             THEN IF t[1].tag \in {"<fence>", "<fence>json"} THEN t[1].body ELSE JsonGarbage
             ELSE IF Len(t) = 1 /\ t[1].seg = "json" THEN t[1].body ELSE JsonGarbage

\* lines 139-169: parse the reply and build the IntentResult; every failure
\* (content None, no JSON, no object, no or unknown intent, confidence
\* outside [0, 1]) ends in the except branch
ParseClassification(content) ==
    IF content = None THEN ClassifyFallback
    ELSE LET loaded == JsonLoads(ClassifierJsonText(TheVal(content)))
         IN  IF ~loaded.ok \/ ~IsObj(loaded.val) THEN ClassifyFallback
             ELSE LET d == loaded.val.v
                      confidence == Get(d, "confidence", 80)
                      topic == IF "topic" \in DOMAIN d THEN Some(d.topic) ELSE None
                  IN  IF "intent" \in DOMAIN d
                         /\ IntentResultValid(d.intent, confidence)
                      THEN IntentResult(d.intent, confidence, topic)
                      ELSE ClassifyFallback

-----------------------------------------------------------------------------
(* Inputs: conversations and classifier replies                            *)

UserMessage(content) == [role |-> "user", content |-> content]

Conversations ==
    { <<UserMessage(<<Prose("Crea un quiz sulle frazioni")>>)>>,
      <<UserMessage(<<Marker("CREA QUIZ:"), Space, Prose("frazioni"), Space>>)>>,
      <<[role |-> "assistant", content |-> <<Prose("Buongiorno")>>],
        UserMessage(<<Space, Marker(":bar_chart:"), Prose("slide sul"),
                      Marker("RICERCA WEB:"), Space, Prose("sistema solare")>>)>>,
      <<UserMessage(<<Marker("GENERA IMMAGINE:"), Space, Prose("un gatto")>>)>> }

ClassifierObjects ==
    {[intent |-> i, confidence |-> 95, topic |-> "frazioni"] :
        i \in TeacherIntents \cup {"text_editor"}}
    \cup {[intent |-> "web_search", confidence |-> 40],
          [intent |-> "quiz_generation", confidence |-> 59, topic |-> "frazioni"],
          [intent |-> "web_search", confidence |-> 60],
          [intent |-> "document_help"],
          [intent |-> "quiz_generation", confidence |-> 150],
          [confidence |-> 90]}

ClassifierContents ==
    {None, Some(<<Prose("Non saprei")>>), Some(<<JsonSeg(JsonText(JsonArr))>>),
     Some(<<Fence("<fence>json", JsonText(JsonObj([intent |-> "web_search",
                                                confidence |-> 90]))), Space>>),
     Some(<<Prose("Ecco:"), JsonSeg(JsonText(JsonObj([intent |-> "web_search",
                                                      confidence |-> 90])))>>)}
    \cup {Some(<<JsonSeg(JsonText(JsonObj(o)))>>) : o \in ClassifierObjects}

-----------------------------------------------------------------------------
(* The generation backend as the code sees it                              *)

\* llm_service.generate with provider "openai" raises before any request
\* when no OpenAI client was configured (llm_service.py:60)
LlmUnconfigured(prov) == prov = "openai" /\ ~apiKey

\* what one llm_service.generate call may do
LlmOutcomes(prov, contents) ==
    IF LlmUnconfigured(prov) THEN {[type |-> "unconfigured"]}
    ELSE {[type |-> "fault"]} \cup {[type |-> "content", content |-> c] : c \in contents}

Issued(o) == o.type # "unconfigured"
Faulted(o) == o.type # "content"

LlmRequest(system_prompt, msgs, prov) ==
    [api |-> "llm_service.generate", system_prompt |-> system_prompt,
     messages |-> msgs, tools |-> "none", provider |-> prov]

ClientRequest(msgs, tools) ==
    [api |-> "client.chat.completions.create", system_prompt |-> "none",
     messages |-> msgs, tools |-> tools, provider |-> "openai"]

\* the request and the call counters after one llm_service.generate call
AfterLlmCall(o, req) ==
    /\ calls' = IF Issued(o) THEN calls + 1 ELSE calls
    /\ lastRequest' = IF Issued(o) THEN Some(req) ELSE lastRequest
    /\ UNCHANGED loopCalls

\* a value returned to the caller: a text, or None
ReturnedText(text) == [ret |-> "str", text |-> text]
ReturnedNone == [ret |-> "None"]
ReturnedContent(c) == IF c = None THEN ReturnedNone ELSE ReturnedText(TheVal(c))

\* message.content or ""
OrEmpty(c) == IF c = None THEN <<>> ELSE TheVal(c)

\* sequences of 1..n tool-call requests drawn from R
RequestSeqs(R, n) == UNION {[1..m -> R] : m \in 1..n}

\* the backend numbers the tool calls it requests
WithIds(tcs, firstId) ==
    [i \in 1..Len(tcs) |->
        [id |-> firstId + i - 1, name |-> tcs[i].name, arguments |-> tcs[i].arguments]]

SystemMessage(prompt) == [role |-> "system", content |-> <<Prose(prompt)>>]

AssistantToolCallMessage(content, tcs) ==
    [role |-> "assistant", content |-> OrEmpty(content),
     tool_calls |-> [i \in 1..Len(tcs) |->
                        [id |-> tcs[i].id, type |-> "function",
                         function |-> [name |-> tcs[i].name,
                                       arguments |-> tcs[i].arguments]]]]

ToolMessage(id, output) == [role |-> "tool", tool_call_id |-> id, content |-> output]

-----------------------------------------------------------------------------
(* teacher_agent.py: generate_quiz_with_tools, generate_lesson_with_tools, *)
(* generate_exercise_with_tools, generate_presentation_with_tools.  The    *)
(* four functions are one text with the kind's names substituted.          *)

\* message.content of a response that carries tool calls
ToolCallContents == {None}

\* the backend numbers the tool calls of one invocation 1, 2, ...
RECURSIVE CountToolCalls(_)
CountToolCalls(msgs) ==
    IF msgs = <<>> THEN 0
    ELSE (IF "tool_calls" \in DOMAIN Head(msgs) THEN Len(Head(msgs).tool_calls) ELSE 0)
         + CountToolCalls(Tail(msgs))

NextId(msgs) == CountToolCalls(msgs) + 1

\* what the backend may answer to a call of the loop of kind k
ContentResponses(k, firstId) ==
    {[type |-> "fault"]}
    \cup {[type |-> "final", content |-> c] : c \in FinalContents(k)}
    \cup {[type |-> "tool_calls", content |-> c, tool_calls |-> WithIds(tcs, firstId)] :
            c \in ToolCallContents,
            tcs \in RequestSeqs(ContentRequests(k), MaxToolCalls - (firstId - 1))}

\* args = json.loads(arguments), {} when the text is no JSON
LoadArguments(arguments) ==
    LET loaded == JsonLoads(arguments)
    IN  IF loaded.ok THEN loaded.val ELSE JsonObj(EmptyObject)

\* a loop body in which a rejected call clears the captured artifact
ContentToolStepClearing(k, tc, st) ==
    LET args == LoadArguments(tc.arguments)
    IN  IF tc.name = ToolName(k)
        THEN LET r == ExecuteCreate(k, args)
             IN  IF r.ok
                 THEN [st EXCEPT !.msgs = Append(@, ToolMessage(tc.id, SuccessOutput(k, r.data))),
                                 !.art = Some(r.data),
                                 !.validated = @ \cup {r.data}]
                 ELSE [st EXCEPT !.raised = TRUE, !.failed = @ \cup {tc.id}, !.art = None]
        ELSE [st EXCEPT !.msgs = Append(@, ToolMessage(tc.id, UnknownToolOutput(tc.name)))]

\* a loop body in which an unknown tool name raises
ContentToolStepRaising(k, tc, st) ==
    LET args == LoadArguments(tc.arguments)
    IN  IF tc.name = ToolName(k)
        THEN LET r == ExecuteCreate(k, args)
             IN  IF r.ok
                 THEN [st EXCEPT !.msgs = Append(@, ToolMessage(tc.id, SuccessOutput(k, r.data))),
                                 !.art = Some(r.data),
                                 !.validated = @ \cup {r.data}]
                 ELSE [st EXCEPT !.raised = TRUE, !.failed = @ \cup {tc.id}]
        ELSE [st EXCEPT !.raised = TRUE]

\* a loop body in which a rejected call is answered instead of raising
ContentToolStepAnswering(k, tc, st) ==
    LET args == LoadArguments(tc.arguments)
    IN  IF tc.name = ToolName(k)
        THEN LET r == ExecuteCreate(k, args)
             IN  IF r.ok
                 THEN [st EXCEPT !.msgs = Append(@, ToolMessage(tc.id, SuccessOutput(k, r.data))),
                                 !.art = Some(r.data),
                                 !.validated = @ \cup {r.data}]
                 ELSE [st EXCEPT !.msgs = Append(@, ToolMessage(tc.id, <<Prose("Errore")>>)),
                                 !.failed = @ \cup {tc.id}]
        ELSE [st EXCEPT !.msgs = Append(@, ToolMessage(tc.id, UnknownToolOutput(tc.name)))]

\* the body of "for tool_call in message.tool_calls" for one call; st holds
\* the messages, the captured artifact, the ids of the calls whose arguments
\* were rejected, and whether a call has raised
ContentToolStep(k, tc, st) ==
    LET args == LoadArguments(tc.arguments)
    IN  IF tc.name = ToolName(k)
        THEN LET r == ExecuteCreate(k, args)
             IN  IF r.ok
                 THEN [st EXCEPT !.msgs = Append(@, ToolMessage(tc.id, SuccessOutput(k, r.data))),
                                 !.art = Some(r.data),
                                 !.validated = @ \cup {r.data}]
                 ELSE [st EXCEPT !.raised = TRUE, !.failed = @ \cup {tc.id}]
        ELSE [st EXCEPT !.msgs = Append(@, ToolMessage(tc.id, UnknownToolOutput(tc.name)))]

\* the for loop over the tool calls: it stops at the first call that raises
RECURSIVE ContentToolCalls(_, _, _, _)
ContentToolCalls(k, tcs, i, st) ==
    IF i > Len(tcs) \/ st.raised THEN st
    ELSE ContentToolCalls(k, tcs, i + 1, ContentToolStep(k, tcs[i], st))

\* the block appended to, or returned as, the reply
ArtifactFence(k, art) == Fence(FenceTag(k), JsonDumps(TheVal(art)))

\* lines 783-789: the reply for a response without tool calls
FinalReply(k, content, art) ==
    LET response_text == OrEmpty(content)
    IN  IF art # None /\ ~HasFence(response_text, FenceTag(k))
        THEN response_text \o <<ArtifactFence(k, art)>>
        ELSE response_text

\* lines 796-800: the reply when the for loop ends
ExhaustedReply(k, art) ==
    IF art # None THEN <<Prose(GeneratedPrefix(k)), ArtifactFence(k, art)>>
    ELSE <<Prose(Apology(k))>>

\* One pass of "for iteration in range(max_iterations)": the backend call,
\* the tool calls, and what the loop does next.  ctl is "loop" (next
\* iteration), "return" (a reply) or "raise" (the exception is re-raised).
ContentIteration(k, msgs, art, it, n, resp) ==
    LET last == (it = n - 1)
        st0 == [msgs |-> msgs, art |-> art, raised |-> FALSE, validated |-> {},
                failed |-> {}]
        st == IF resp.type = "tool_calls"
              THEN ContentToolCalls(k, resp.tool_calls, 1,
                       [st0 EXCEPT !.msgs = Append(@,
                           AssistantToolCallMessage(resp.content, resp.tool_calls))])
              ELSE st0
        excepted == resp.type = "fault" \/ st.raised
    IN  [msgs |-> st.msgs, art |-> st.art, validated |-> st.validated,
         failed |-> st.failed,
         ctl |-> IF excepted THEN (IF last THEN "raise" ELSE "loop")
                 ELSE IF resp.type = "final" THEN "return"
                 ELSE IF last THEN "return" ELSE "loop",
         ending |-> IF excepted THEN (IF last THEN "raised" ELSE "none")
                    ELSE IF resp.type = "final" THEN "final"
                    ELSE IF last THEN "exhausted" ELSE "none",
         text |-> IF resp.type = "final" THEN FinalReply(k, resp.content, st.art)
                  ELSE ExhaustedReply(k, st.art)]

-----------------------------------------------------------------------------
(* teacher_agent.py: the generators without tools                          *)

MissingFormatWarning ==
    "Non sono riuscito a generare la presentazione nel formato corretto. Per favore, riprova con una richiesta piu' specifica."
ExtractionErrorWarning == "Errore nella generazione della presentazione. Riprova."

\* a presentation the model wrote into its reply without a fence
LoosePresentation ==
    [title |-> "Frazioni", slides |-> <<[order |-> 0, title |-> "Intro",
                                         content |-> "- parti"]>>]

\* text that looks like a JSON object with "title" and "slides" to the
\* regular expression of line 1049 but is no JSON
LooksLikePresentation == [syntax |-> "garbage", keys |-> {"title", "slides"}]

\* re.search of line 1049: the first piece of the reply that runs from a
\* brace over "title", "slides" and a bracket pair to a closing brace
RegexCandidate(body) ==
    IF body.syntax = "json"
    THEN IsObj(body.val) /\ {"title", "slides"} \subseteq DOMAIN body.val.v
    ELSE "keys" \in DOMAIN body /\ {"title", "slides"} \subseteq body.keys

PresentationRegexSearch(text) ==
    LET hits == {i \in 1..Len(text) : text[i].seg = "json" /\ RegexCandidate(text[i].body)}
    IN  IF hits = {} THEN None
        ELSE Some(text[CHOOSE i \in hits : \A j \in hits : i <= j].body)

\* lines 1041-1069: the repair of a reply without the fenced block
RepairPresentation(content) ==
    IF HasFence(content, FenceTag("presentation")) THEN content
    ELSE LET json_match == PresentationRegexSearch(content)
         IN  IF json_match = None
             THEN content \o <<Marker("warning"), Prose(MissingFormatWarning)>>
             ELSE LET loaded == JsonLoads(TheVal(json_match))
                  IN  IF ~loaded.ok
                      THEN content \o <<Marker("warning"), Prose(ExtractionErrorWarning)>>
                      ELSE IF Len(loaded.val.v.slides) > 0
                           THEN content \o <<Fence(FenceTag("presentation"),
                                                   JsonDumps(loaded.val.v))>>
                           ELSE content

\* enhanced_messages of generate_presentation_without_tools
ReminderSuffix == "RICORDA: Devi SEMPRE includere il blocco presentation_data con il JSON completo!"

EnhancedMessages(msgs) ==
    IF msgs = <<>> THEN msgs
    ELSE [msgs EXCEPT ![Len(msgs)] =
            [role |-> "user", content |-> msgs[Len(msgs)].content \o <<Prose(ReminderSuffix)>>]]

\* the messages a generator without tools sends
WithoutToolsMessages(k, msgs) ==
    IF k = "presentation" THEN EnhancedMessages(msgs) ELSE msgs

\* the caller's list had the generator worked on it in place
CallerMessagesAliased(k, msgs) == WithoutToolsMessages(k, msgs)

\* the caller's list after the generator has built the messages it sends:
\* line 1024 works on messages.copy() and line 1027 replaces an element of
\* the copy by a new dict, so the list and its dicts stay as they were
CallerMessages(k, msgs) == msgs

\* replies of the model on the path without tools
WithoutToolsContents(k) ==
    {None, Some(<<Prose("Ecco il materiale richiesto.")>>),
     Some(<<Prose("Ecco il materiale richiesto."), Fence(FenceTag(k), ModelJson)>>),
     Some(<<Prose("Ecco:"), JsonSeg(JsonText(JsonObj(LoosePresentation)))>>),
     Some(<<Prose("Ecco:"), JsonSeg(JsonText(JsonObj(ValidArgsA(k))))>>),
     Some(<<Prose("Ecco:"), JsonSeg(JsonText(JsonObj([title |-> "Vuota", slides |-> <<>>])))>>),
     Some(<<Prose("Ecco:"), JsonSeg(LooksLikePresentation)>>)}

\* what generate_<kind>_without_tools returns for a reply of the model;
\* "raise" when the code faults on it (None has no "in")
WithoutToolsReturn(k, c) ==
    IF k # "presentation" THEN [ok |-> TRUE, value |-> ReturnedContent(c)]
    ELSE IF c = None THEN [ok |-> FALSE]
    ELSE [ok |-> TRUE, value |-> ReturnedText(RepairPresentation(TheVal(c)))]

-----------------------------------------------------------------------------
(* teacher_agent.py: generate_with_web_search, generate_with_analytics     *)

\* results of web_search_service.search: a list, empty on any failure
SearchOutcomes ==
    {<<>>,
     <<[title |-> "Frazioni", url |-> "https://example.org/a", snippet |-> "Le frazioni"]>>,
     <<[title |-> "Frazioni", url |-> "https://example.org/a", snippet |-> ""],
       [title |-> "Sistema solare", url |-> "https://example.org/b", snippet |-> "Pianeti"]>>}

\* sources_list: one markdown link per result
SourcesList(found) ==
    [i \in 1..Len(found) |-> [seg |-> "link", title |-> found[i].title,
                              url |-> found[i].url]]

WebSearchContents ==
    {None, Some(<<Prose("Secondo le fonti...")>>),
     Some(<<Prose("Secondo le fonti..."), Marker("Fonti:"), Prose("example.org")>>),
     Some(<<Prose("Secondo le fonti..."), Marker("Fonti:"),
            [seg |-> "link", title |-> "Frazioni", url |-> "https://example.org/a"]>>)}

\* lines 1240-1246
WebSearchReply(text, found) ==
    IF ~HasMarker(text, "Fonti:") /\ SourcesList(found) # <<>>
    THEN text \o <<Marker("Fonti:")>> \o SourcesList(found)
    ELSE text

AnalyticsContents == {None, Some(<<Prose("Ecco i dati delle tue classi.")>>)}

\* the profile's prompt without the caller's context
AnalyticsPromptWithoutContext(ctx) == <<"teacher_support", "">>

\* the system prompt of generate_with_analytics: the profile's prompt and
\* the context
AnalyticsPrompt(ctx) == <<"teacher_support", ctx>>

-----------------------------------------------------------------------------
(* math_agent.py: the sandbox tools.                                       *)
(* An expression is a sequence of tokens.  The grammar below is the part   *)
(* of Python's expression grammar the inputs of the model are written in:  *)
(* integers, names, + - * / ** (and the caret, multiplication sign,        *)
(* division sign and root sign that the calculator rewrites), unary minus, *)
(* parentheses, attribute dots, one-argument calls and the assignment      *)
(* expression (name := expr).  Values are integers, floats with an         *)
(* integral value, other floats (not computed with), functions and the     *)
(* math module.                                                            *)

TInt(n) == [k |-> "int", s |-> "", v |-> n]
TOp(op) == [k |-> "op", s |-> op, v |-> 0]
TName(name) == [k |-> "name", s |-> name, v |-> 0]
LP == TOp("(")
RP == TOp(")")
Blank == TOp(" ")

VInt(n) == [t |-> "int", v |-> n]
VWhole(n) == [t |-> "float", v |-> n]
VFloat(id) == [t |-> "float", id |-> id]
VFunction(id) == [t |-> "function", id |-> id]
VModule(id) == [t |-> "module", id |-> id]
VType(id) == [t |-> "type", id |-> id]
IsNumber(val) == val.t \in {"int", "float"}
HasValue(val) == "v" \in DOMAIN val

\* SAFE_MATH_FUNCTIONS (lines 26-59)
SafeFunctionNames ==
    {"abs", "round", "min", "max", "sum", "pow", "sqrt", "sin", "cos", "tan",
     "asin", "acos", "atan", "atan2", "sinh", "cosh", "tanh", "exp", "log",
     "log10", "log2", "floor", "ceil", "factorial", "gcd", "lcm", "degrees",
     "radians"}
SafeConstantNames == {"pi", "e", "tau", "inf"}

InitialSafeMathFunctions ==
    [n \in SafeFunctionNames \cup SafeConstantNames |->
        IF n \in SafeFunctionNames THEN VFunction(n) ELSE VFloat(n)]

\* str.lower() on the names the inputs use
Lower(w) ==
    CASE w = "PI" -> "pi"
      [] w = "Sqrt" -> "sqrt"
      [] OTHER -> w

\* lines 72-75: the notations the calculator rewrites
NormalizeToken(tok) ==
    IF tok.k # "op" THEN tok
    ELSE CASE tok.s = "^" -> TOp("**")
           [] tok.s = "<times>" -> TOp("*")
           [] tok.s = "<divide>" -> TOp("/")
           [] tok.s = "<root>" -> TName("sqrt")
           [] OTHER -> tok

Normalize(expr) == [i \in 1..Len(expr) |-> NormalizeToken(expr[i])]

\* re.findall(r'[a-zA-Z_]+', expr), in order
Words(expr) ==
    LET IsWord(tok) == tok.k = "name"
    IN  SelectSeq(expr, IsWord)

\* the first word the allow-list rejects, if any
ForbiddenWords(expr, allowed_words) ==
    LET Bad(tok) == Lower(tok.s) \notin allowed_words
    IN  SelectSeq(Words(expr), Bad)

\* the parser: each operator returns [ok, ast, pos], pos being the next token
NoParse == [ok |-> FALSE]
Parsed(ast, pos) == [ok |-> TRUE, ast |-> ast, pos |-> pos]
IsOp(toks, pos, ops) == pos <= Len(toks) /\ toks[pos].k = "op" /\ toks[pos].s \in ops

\* One recursive operator holds the grammar; at names the rule and x is the
\* position the rule starts at ([pos |-> p]) or, for the rules that extend
\* an operand already parsed, that operand.
\*   expr    := term (("+" | "-") term)*
\*   term    := factor (("*" | "/") factor)*
\*   factor  := ("-" | "+") factor | power
\*   power   := atom trailer* ("**" factor)?
\*   atom    := INT | NAME | "(" NAME ":=" expr ")" | "(" expr ")"
\*   trailer := "." NAME | "(" expr ")"
RECURSIVE Parse(_, _, _)
Parse(at, toks, x) ==
    LET pos == x.pos
        Closed(r, ast) == IF r.ok /\ IsOp(toks, r.pos, {")"})
                          THEN Parsed(ast, r.pos + 1) ELSE NoParse
        Binary(op, r) == [n |-> "bin", op |-> op, l |-> x.ast, r |-> r.ast]
    IN  CASE at = "atom" ->
                IF pos > Len(toks) THEN NoParse
                ELSE IF toks[pos].k = "int"
                THEN Parsed([n |-> "int", v |-> toks[pos].v], pos + 1)
                ELSE IF toks[pos].k = "name"
                THEN Parsed([n |-> "name", id |-> toks[pos].s], pos + 1)
                ELSE IF ~IsOp(toks, pos, {"("}) THEN NoParse
                ELSE IF pos + 2 <= Len(toks) /\ toks[pos + 1].k = "name"
                        /\ IsOp(toks, pos + 2, {":="})
                THEN LET r == Parse("expr", toks, [pos |-> pos + 3])
                     IN  Closed(r, [n |-> "walrus", id |-> toks[pos + 1].s,
                                    arg |-> IF r.ok THEN r.ast ELSE r])
                ELSE LET r == Parse("expr", toks, [pos |-> pos + 1])
                     IN  Closed(r, IF r.ok THEN r.ast ELSE r)
          [] at = "trailers" ->
                IF IsOp(toks, pos, {"."})
                THEN IF pos + 1 <= Len(toks) /\ toks[pos + 1].k = "name"
                     THEN Parse("trailers", toks,
                                Parsed([n |-> "attr", arg |-> x.ast, id |-> toks[pos + 1].s],
                                       pos + 2))
                     ELSE NoParse
                ELSE IF IsOp(toks, pos, {"("})
                THEN LET r == Parse("expr", toks, [pos |-> pos + 1])
                         c == Closed(r, [n |-> "call", fn |-> x.ast,
                                         arg |-> IF r.ok THEN r.ast ELSE r])
                     IN  IF c.ok THEN Parse("trailers", toks, c) ELSE NoParse
                ELSE x
          [] at = "power" ->
                LET a == Parse("atom", toks, x)
                    base == IF a.ok THEN Parse("trailers", toks, a) ELSE a
                    ex == Parse("factor", toks, [pos |-> base.pos + 1])
                IN  IF base.ok /\ IsOp(toks, base.pos, {"**"})
                    THEN IF ex.ok
                         THEN Parsed([n |-> "bin", op |-> "**", l |-> base.ast, r |-> ex.ast],
                                     ex.pos)
                         ELSE NoParse
                    ELSE base
          [] at = "factor" ->
                IF IsOp(toks, pos, {"-", "+"})
                THEN LET f == Parse("factor", toks, [pos |-> pos + 1])
                     IN  IF f.ok
                         THEN Parsed([n |-> "unary", op |-> toks[pos].s, arg |-> f.ast], f.pos)
                         ELSE NoParse
                ELSE Parse("power", toks, x)
          [] at = "termRest" ->
                IF IsOp(toks, pos, {"*", "/"})
                THEN LET f == Parse("factor", toks, [pos |-> pos + 1])
                     IN  IF f.ok
                         THEN Parse("termRest", toks, Parsed(Binary(toks[pos].s, f), f.pos))
                         ELSE NoParse
                ELSE x
          [] at = "term" ->
                LET f == Parse("factor", toks, x)
                IN  IF f.ok THEN Parse("termRest", toks, f) ELSE NoParse
          [] at = "exprRest" ->
                IF IsOp(toks, pos, {"+", "-"})
                THEN LET t == Parse("term", toks, [pos |-> pos + 1])
                     IN  IF t.ok
                         THEN Parse("exprRest", toks, Parsed(Binary(toks[pos].s, t), t.pos))
                         ELSE NoParse
                ELSE x
          [] at = "expr" ->
                LET t == Parse("term", toks, x)
                IN  IF t.ok THEN Parse("exprRest", toks, t) ELSE NoParse

ParseExpr(toks, pos) == Parse("expr", toks, [pos |-> pos])

\* compile(expr): the whole text, blanks aside, must be one expression
Compile(expr) ==
    LET NotBlank(tok) == tok # Blank
        toks == SelectSeq(expr, NotBlank)
        r == ParseExpr(toks, 1)
    IN  IF r.ok /\ r.pos = Len(toks) + 1 THEN r ELSE NoParse

RECURSIVE StripLeft(_)
StripLeft(expr) ==
    IF expr # <<>> /\ Head(expr) = Blank THEN StripLeft(Tail(expr)) ELSE expr

RECURSIVE StripRight(_)
StripRight(expr) ==
    IF expr # <<>> /\ expr[Len(expr)] = Blank
    THEN StripRight(SubSeq(expr, 1, Len(expr) - 1)) ELSE expr

StripExpr(expr) == StripRight(StripLeft(expr))

\* evaluation: [ok, val, env] or [ok, err, env]; env maps bound names to values
EvalOk(val, env) == [ok |-> TRUE, val |-> val, env |-> env]
EvalErr(err, env) == [ok |-> FALSE, err |-> err, env |-> env]
Bind(env, id, val) == [n \in DOMAIN env \cup {id} |-> IF n = id THEN val ELSE env[n]]

RECURSIVE IntPow(_, _)
IntPow(b, x) == IF x = 0 THEN 1 ELSE b * IntPow(b, x - 1)

RECURSIVE IntSqrt(_, _)
IntSqrt(n, r) == IF r * r >= n THEN r ELSE IntSqrt(n, r + 1)

\* an arithmetic that subtracts the left operand from the right
ArithSwapped(op, a, b) ==
    CASE op = "+" -> a + b
      [] op = "-" -> b - a
      [] op = "*" -> a * b

Arith(op, a, b) ==
    CASE op = "+" -> a + b
      [] op = "-" -> a - b
      [] op = "*" -> a * b

BinaryOp(op, a, b, env) ==
    IF ~(IsNumber(a) /\ IsNumber(b)) THEN EvalErr("TypeError", env)
    ELSE IF op = "/"
    THEN IF HasValue(b) /\ b.v = 0 THEN EvalErr("ZeroDivisionError", env)
         ELSE IF HasValue(a) /\ HasValue(b) /\ a.v % b.v = 0
              THEN EvalOk(VWhole(a.v \div b.v), env)
              ELSE EvalOk(VFloat("quotient"), env)
    ELSE IF op = "**"
    THEN IF ~(HasValue(a) /\ HasValue(b)) THEN EvalOk(VFloat("power"), env)
         ELSE IF b.v >= 0
              THEN EvalOk(IF a.t = "int" /\ b.t = "int" THEN VInt(IntPow(a.v, b.v))
                          ELSE VWhole(IntPow(a.v, b.v)), env)
              ELSE IF a.v = 0 THEN EvalErr("ZeroDivisionError", env)
              ELSE IF a.v = 1 THEN EvalOk(VWhole(1), env)
              ELSE EvalOk(VFloat("power"), env)
    ELSE IF ~(HasValue(a) /\ HasValue(b)) THEN EvalOk(VFloat("sum"), env)
         ELSE EvalOk(IF a.t = "int" /\ b.t = "int" THEN VInt(Arith(op, a.v, b.v))
                     ELSE VWhole(Arith(op, a.v, b.v)), env)

CallFunction(fn, arg, env) ==
    IF fn.t # "function" THEN EvalErr("TypeError", env)
    ELSE IF ~IsNumber(arg) THEN EvalErr("TypeError", env)
    ELSE IF fn.id = "abs" /\ HasValue(arg)
    THEN EvalOk([arg EXCEPT !.v = IF @ < 0 THEN 0 - @ ELSE @], env)
    ELSE IF fn.id = "sqrt" /\ HasValue(arg)
    THEN IF arg.v < 0 THEN EvalErr("ValueError", env)
         ELSE IF IntSqrt(arg.v, 0) * IntSqrt(arg.v, 0) = arg.v
              THEN EvalOk(VWhole(IntSqrt(arg.v, 0)), env)
              ELSE EvalOk(VFloat("sqrt"), env)
    ELSE EvalOk(VFloat(fn.id), env)

GetAttr(val, id, env) ==
    IF id = "__class__" THEN EvalOk(VType(val.t), env)
    ELSE IF val.t = "module" /\ id \in SafeFunctionNames THEN EvalOk(VFunction(id), env)
    ELSE IF val.t = "module" /\ id \in SafeConstantNames THEN EvalOk(VFloat(id), env)
    ELSE EvalErr("AttributeError", env)

\* locals first, then globals
RECURSIVE Eval(_, _, _)
Eval(ast, env, globals) ==
    CASE ast.n = "int" -> EvalOk(VInt(ast.v), env)
      [] ast.n = "name" ->
            IF ast.id \in DOMAIN env THEN EvalOk(env[ast.id], env)
            ELSE IF ast.id \in DOMAIN globals THEN EvalOk(globals[ast.id], env)
            ELSE EvalErr("NameError", env)
      [] ast.n = "walrus" ->
            LET a == Eval(ast.arg, env, globals)
            IN  IF a.ok THEN EvalOk(a.val, Bind(a.env, ast.id, a.val)) ELSE a
      [] ast.n = "unary" ->
            LET a == Eval(ast.arg, env, globals)
            IN  IF ~a.ok THEN a
                ELSE IF ~IsNumber(a.val) THEN EvalErr("TypeError", a.env)
                ELSE IF ast.op = "-" /\ HasValue(a.val)
                     THEN EvalOk([a.val EXCEPT !.v = 0 - @], a.env)
                     ELSE a
      [] ast.n = "bin" ->
            LET a == Eval(ast.l, env, globals)
            IN  IF ~a.ok THEN a
                ELSE LET b == Eval(ast.r, a.env, globals)
                     IN  IF ~b.ok THEN b ELSE BinaryOp(ast.op, a.val, b.val, b.env)
      [] ast.n = "attr" ->
            LET a == Eval(ast.arg, env, globals)
            IN  IF a.ok THEN GetAttr(a.val, ast.id, a.env) ELSE a
      [] ast.n = "call" ->
            LET f == Eval(ast.fn, env, globals)
            IN  IF ~f.ok THEN f
                ELSE LET a == Eval(ast.arg, f.env, globals)
                     IN  IF ~a.ok THEN a ELSE CallFunction(f.val, a.val, a.env)

\* str(int) as a sequence of characters
RECURSIVE DigitsOf(_)
DigitsOf(n) ==
    LET digit == <<"0", "1", "2", "3", "4", "5", "6", "7", "8", "9">>
    IN  IF n < 10 THEN <<digit[n + 1]>> ELSE Append(DigitsOf(n \div 10), digit[(n % 10) + 1])

DecimalString(n) == IF n < 0 THEN <<"-">> \o DigitsOf(0 - n) ELSE DigitsOf(n)

\* str(value), after the calculator's float formatting (lines 100-104)
FormatFloat(val) ==
    IF val.t = "float" /\ HasValue(val) THEN VInt(val.v) ELSE val

Str(val) ==
    CASE val.t = "int" -> DecimalString(val.v)
      [] val.t = "float" /\ HasValue(val) -> DecimalString(val.v) \o <<".", "0">>
      [] val.t = "float" -> <<"<float ", val.id, ">">>
      [] val.t = "function" -> <<"<built-in function ", val.id, ">">>
      [] val.t = "module" -> <<"<module ", val.id, ">">>
      [] val.t = "type" -> <<"<class '", val.id, "'>">>

\* ToolResult (lines 16-22)
ToolResult(tool_name, input_data, output, success, error) ==
    [tool_name |-> tool_name, input_data |-> input_data, output |-> output,
     success |-> success, error |-> error]

EmptyEnv == [n \in {} |-> VInt(0)]

CalculatorFailure(expression, msg) ==
    ToolResult("calculator", expression, <<>>, FALSE, Some(msg))

\* lines 94-108: the evaluation and the formatting of its result
CalculatorEvaluated(expression, ev) ==
    IF ~ev.ok THEN [result |-> CalculatorFailure(expression, <<ev.err>>), table |-> ev.env]
    ELSE [result |-> ToolResult("calculator", expression, Str(FormatFloat(ev.val)),
                                TRUE, None),
          table |-> ev.env]

\* line 94: eval(expr, {"__builtins__": {}}, SAFE_MATH_FUNCTIONS)
CalculatorEval(expression, code, table) ==
    IF ~code.ok THEN [result |-> CalculatorFailure(expression, <<"SyntaxError">>),
                      table |-> table]
    ELSE CalculatorEvaluated(expression, Eval(code.ast, table, EmptyEnv))

\* lines 79-91: the allow-list check on the rewritten text
CalculatorChecked(expression, expr, rejected, table) ==
    IF rejected # <<>>
    THEN [result |-> CalculatorFailure(expression,
                         <<"Funzione non consentita: ", rejected[1].s>>),
          table |-> table]
    ELSE CalculatorEval(expression, Compile(expr), table)

CalculatorRewritten(expression, expr, table) ==
    CalculatorChecked(expression, expr, ForbiddenWords(expr, DOMAIN table), table)

\* safe_calculator (lines 62-116), with the table eval() is given as its
\* local namespace: [result, table]
safe_calculator(expression, table) ==
    IF expression.py # "str"
    THEN [result |-> CalculatorFailure(expression, <<"AttributeError">>), table |-> table]
    ELSE CalculatorRewritten(expression, Normalize(StripExpr(expression.text)), table)

\* safe_globals (lines 126-163): the names a snippet can read
SafeBuiltinNames ==
    {"abs", "round", "min", "max", "sum", "pow", "len", "range", "enumerate",
     "zip", "map", "filter", "sorted", "reversed", "list", "tuple", "set",
     "dict", "int", "float", "str", "bool", "print", "isinstance", "type"}
SafeGlobalFunctions == {"sqrt", "sin", "cos", "tan", "log", "exp"}
SafeGlobalConstants == {"pi", "e"}

safe_globals ==
    [n \in SafeBuiltinNames \cup SafeGlobalFunctions \cup SafeGlobalConstants \cup {"math"} |->
        IF n = "math" THEN VModule("math")
        ELSE IF n \in SafeGlobalConstants THEN VFloat(n)
        ELSE VFunction(n)]

\* A snippet is a sequence of statements: name = expr, print(expr), import
\* name, or a bare expr.
Assign(id, expr) == [op |-> "assign", id |-> id, expr |-> expr]
PrintStmt(expr) == [op |-> "print", id |-> "", expr |-> expr]
Import(id) == [op |-> "import", id |-> id, expr |-> <<>>]
ExprStmt(expr) == [op |-> "expr", id |-> "", expr |-> expr]

CompilesAll(code) ==
    \A i \in 1..Len(code) : code[i].op = "import" \/ Compile(code[i].expr).ok

\* the names of env that order does not list yet, appended (dict insertion order)
Inserted(order, env, id) == IF id \in DOMAIN env THEN order ELSE Append(order, id)

\* one statement, ev being the evaluation of its expression
ExecStatement(stmt, ev, st) ==
    IF stmt.op = "import" THEN [st EXCEPT !.ok = FALSE, !.err = "ImportError"]
    ELSE IF ~ev.ok THEN [st EXCEPT !.ok = FALSE, !.err = ev.err, !.local_vars = ev.env]
    ELSE CASE stmt.op = "assign" ->
                 [st EXCEPT !.local_vars = Bind(ev.env, stmt.id, ev.val),
                            !.order = Inserted(@, ev.env, stmt.id)]
           [] stmt.op = "print" ->
                 [st EXCEPT !.local_vars = ev.env,
                            !.output_lines = Append(@, Str(ev.val))]
           [] stmt.op = "expr" ->
                 [st EXCEPT !.local_vars = ev.env]

EvalStatement(stmt, env) ==
    IF stmt.op = "import" THEN EvalOk(VInt(0), env)
    ELSE Eval(Compile(stmt.expr).ast, env, safe_globals)

\* exec(code, safe_globals, local_vars): [ok, err, local_vars, order, output_lines]
RECURSIVE Exec(_, _, _)
Exec(code, i, st) ==
    IF i > Len(code) \/ ~st.ok THEN st
    ELSE Exec(code, i + 1, ExecStatement(code[i], EvalStatement(code[i], st.local_vars), st))

RECURSIVE JoinLines(_)
JoinLines(lines) ==
    IF Len(lines) = 1 THEN lines[1]
    ELSE lines[1] \o <<"\n">> \o JoinLines(Tail(lines))

\* lines 181-192: where the output is taken from
SnippetOutput(output_lines, local_vars, order) ==
    IF output_lines # <<>> THEN JoinLines(output_lines)
    ELSE IF "result" \in DOMAIN local_vars THEN Str(local_vars["result"])
    ELSE IF "risultato" \in DOMAIN local_vars THEN Str(local_vars["risultato"])
    ELSE IF DOMAIN local_vars # {} THEN Str(local_vars[order[Len(order)]])
    ELSE <<"Codice eseguito senza output">>

SnippetExecuted(code, st) ==
    IF ~st.ok THEN ToolResult("python", code, <<>>, FALSE, Some(<<st.err>>))
    ELSE ToolResult("python", code, SnippetOutput(st.output_lines, st.local_vars, st.order),
                    TRUE, None)

\* line 178 from the empty local namespace and an empty output_lines
SnippetRun(text) ==
    Exec(text, 1, [ok |-> TRUE, err |-> "", local_vars |-> EmptyEnv,
                   order |-> <<>>, output_lines |-> <<>>])

\* safe_python_math (lines 119-207)
safe_python_math(code) ==
    IF code.py # "str" THEN ToolResult("python", code, <<>>, FALSE, Some(<<"TypeError">>))
    ELSE IF ~CompilesAll(code.text)
    THEN ToolResult("python", code, <<>>, FALSE, Some(<<"SyntaxError">>))
    ELSE SnippetExecuted(code, SnippetRun(code.text))

-----------------------------------------------------------------------------
(* math_agent.py: run_math_agent                                           *)

Chars(cs) == [seg |-> "chars", chars |-> cs]

MathApology == "Mi dispiace, non sono riuscito a completare il calcolo."

\* the expressions and snippets the backend may ask the tools to run
SumExpression == <<TInt(2), TOp("+"), TInt(2), TOp("*"), TInt(3)>>
ForbiddenExpression == <<TName("os"), TOp("."), TName("system")>>
RebindingExpression == <<LP, TName("pi"), TOp(":="), TInt(3), RP>>
ResultSnippet == <<Assign("a", <<TInt(6)>>), Assign("result", <<TName("a"), TOp("*"), TInt(7)>>)>>
ImportSnippet == <<PrintStmt(<<TInt(1)>>), Import("os")>>

\* the tool-call requests a backend may send to run_math_agent
MathRequests ==
    {[name |-> "calculator", arguments |-> JsonText(JsonObj([expression |-> PyStr(e)]))] :
        e \in {SumExpression, ForbiddenExpression, RebindingExpression}}
    \cup {[name |-> "calculator", arguments |-> a] : a \in {JsonGarbage, JsonText(JsonArr)}}
    \cup {[name |-> "python_math", arguments |-> JsonText(JsonObj([code |-> PyStr(c)]))] :
            c \in {ResultSnippet, ImportSnippet}}
    \cup {[name |-> "plot", arguments |-> JsonText(JsonObj([expression |-> PyStr(SumExpression)]))]}

\* message.content of a response of the math backend
MathContents == {None, Some(<<Prose("Proviamo insieme!")>>)}

\* what the backend may answer to a call of run_math_agent
MathResponses(firstId) ==
    {[type |-> "fault"]}
    \cup {[type |-> "final", content |-> c] : c \in MathContents}
    \cup {[type |-> "tool_calls", content |-> c, tool_calls |-> WithIds(tcs, firstId)] :
            c \in MathContents,
            tcs \in RequestSeqs(MathRequests, MaxToolCalls - (firstId - 1))}

\* lines 386-389
MathToolOutput(r) ==
    IF r.success THEN <<Prose("Risultato: "), Chars(r.output)>>
    ELSE <<Prose("Errore: "), Chars(TheVal(r.error))>>

\* args.get(key, ""): raises when args is no dict
ArgsGet(args, key) ==
    IF ~IsObj(args) THEN [ok |-> FALSE, val |-> PyStr(<<>>)]
    ELSE [ok |-> TRUE,
          val |-> IF key \in DOMAIN args.v THEN args.v[key] ELSE PyStr(<<>>)]

\* lines 385-395: the tool message of one result
MathToolAnswered(tc, r, table, st) ==
    [st EXCEPT !.msgs = Append(@, ToolMessage(tc.id, MathToolOutput(r))),
               !.table = table,
               !.failed = IF r.success THEN @ ELSE @ \cup {tc.id}]

MathCalculatorAnswered(tc, calc, st) == MathToolAnswered(tc, calc.result, calc.table, st)

\* lines 372-383: the tool the name selects
MathToolSelected(tc, args, arg, st) ==
    IF tc.name \in {"calculator", "python_math"} /\ ~arg.ok
    THEN [st EXCEPT !.raised = TRUE]
    ELSE CASE tc.name = "calculator" ->
                 MathCalculatorAnswered(tc, safe_calculator(arg.val, st.table), st)
           [] tc.name = "python_math" ->
                 MathToolAnswered(tc, safe_python_math(arg.val), st.table, st)
           [] OTHER ->
                 MathToolAnswered(tc, ToolResult(tc.name, args, <<>>, FALSE,
                                                 Some(<<"Tool sconosciuto: ", tc.name>>)),
                                  st.table, st)

MathToolLoaded(tc, args, st) ==
    MathToolSelected(tc, args,
                     ArgsGet(args, IF tc.name = "calculator" THEN "expression" ELSE "code"),
                     st)

\* the body of "for tool_call in message.tool_calls" (lines 365-395) for one
\* call; st holds the messages, the calculator's table, the ids of the calls
\* whose result was a failure, and whether the call has raised
MathToolStep(tc, st) == MathToolLoaded(tc, LoadArguments(tc.arguments), st)

RECURSIVE MathToolCalls(_, _, _)
MathToolCalls(tcs, i, st) ==
    IF i > Len(tcs) \/ st.raised THEN st
    ELSE MathToolCalls(tcs, i + 1, MathToolStep(tcs[i], st))

\* line 401: message.content or the apology
MathExhaustedReply(content) ==
    IF content = None \/ content = Some(<<>>) THEN <<Prose(MathApology)>>
    ELSE TheVal(content)

\* what the pass does next, st being the state after its tool calls
MathOutcome(resp, last, excepted, st) ==
    [msgs |-> st.msgs, table |-> st.table, failed |-> st.failed,
     ctl |-> IF excepted THEN "raise"
             ELSE IF resp.type = "final" \/ last THEN "return" ELSE "loop",
     ending |-> IF excepted THEN "raised"
                ELSE IF resp.type = "final" THEN "final"
                ELSE IF last THEN "exhausted" ELSE "none",
     text |-> IF excepted THEN <<>>
              ELSE IF resp.type = "final" THEN OrEmpty(resp.content)
              ELSE MathExhaustedReply(resp.content)]

MathAfterTools(resp, last, st) ==
    MathOutcome(resp, last, resp.type = "fault" \/ st.raised, st)

\* One pass of "for iteration in range(max_iterations)" (lines 332-398) and,
\* after the last pass, line 401.  Nothing in run_math_agent catches.
MathIteration(msgs, table, it, n, resp) ==
    MathAfterTools(resp, it = n - 1,
        IF resp.type = "tool_calls"
        THEN MathToolCalls(resp.tool_calls, 1,
                 [msgs |-> Append(msgs, AssistantToolCallMessage(resp.content,
                                                                 resp.tool_calls)),
                  table |-> table, raised |-> FALSE, failed |-> {}])
        ELSE [msgs |-> msgs, table |-> table, raised |-> FALSE, failed |-> {}])

-----------------------------------------------------------------------------
(* The state machine: one invocation of run_teacher_agent or of             *)
(* run_math_agent                                                          *)

Providers == {"openai", "anthropic"}
Contexts == {"Classe 3A: 20 studenti, 2 sessioni"}

\* a test of the provider that overlooks the key
ToolsSupportedIgnoringKey == provider = "openai"

\* client = AsyncOpenAI(...) is used only under this condition (line 715)
ToolsSupported == provider = "openai" /\ apiKey

NoHistory ==
    [classified |-> None,   \* what classify_intent returned
     routed |-> "none",     \* the intent run_teacher_agent dispatched on
     validated |-> {},      \* the artifacts the create tool validated
     captured |-> None,     \* the artifact held when the loop ended
     failed |-> {},         \* ids of the tool calls that failed in the last iteration
     allTool |-> TRUE,      \* every loop response so far carried tool calls
     caught |-> FALSE,      \* an exception reached run_teacher_agent's handler
     final |-> None,        \* content of the response without tool calls
     ending |-> "none",     \* how the loop ended
     classifierReply |-> None, \* outcome of the classification call
     toolFree |-> 0,        \* completions requested by a generator without tools
     toolFreeReply |-> None,   \* outcome of that completion
     earlier |-> 0,         \* tool calls made before the call under observation
     before |-> None]       \* the calculator's table when the tool was called

\* the conversations run_math_agent is tried on
MathConversations == {<<UserMessage(<<Prose("Ho trovato 8, giusto?")>>)>>}

\* the state at the call of the entry point e
Invoked(e) ==
    /\ entry = e
    /\ provider \in Providers
    /\ apiKey \in BOOLEAN
    /\ messages \in IF entry = "teacher" THEN Conversations ELSE MathConversations
    /\ argument = None
    /\ context \in Contexts
    /\ pc = "start"
    /\ intent_result = None
    /\ kind = "none"
    /\ max_iterations \in IF entry = "teacher" THEN {0} ELSE 1..MaxMathIterations
    /\ iteration = 0
    /\ full_messages = <<>>
    /\ artifact = None
    /\ last_content = None
    /\ results = <<>>
    /\ result = None
    /\ calls = 0
    /\ loopCalls = 0
    /\ lastRequest = None
    /\ SAFE_MATH_FUNCTIONS = InitialSafeMathFunctions
    /\ GatewayLoaded
    /\ hist = NoHistory

Init == Invoked("teacher")

MathInit == Invoked("math")

inputs == <<entry, provider, apiKey, messages, argument, context>>
teacherVars == <<intent_result, kind, artifact, results>>
loopVars == <<kind, max_iterations, iteration, full_messages, artifact, last_content, results>>
callVars == <<calls, loopCalls, lastRequest>>

\* messages[-1]["content"] if messages else ""
LastMessage == IF messages = <<>> THEN <<>> ELSE messages[Len(messages)].content

\* history = messages[:-1] if len(messages) > 1 else []
History == IF Len(messages) > 1 THEN SubSeq(messages, 1, Len(messages) - 1) ELSE <<>>

\* the characters a segment of text stands for
SegmentLength(x) ==
    CASE x.seg \in {"prose", "marker"} -> Len(x.s)
      [] x.seg = "space" -> 1
      [] OTHER -> 101

\* content[:100], to the last whole segment
RECURSIVE Truncated(_, _)
Truncated(text, room) ==
    IF text = <<>> \/ SegmentLength(Head(text)) > room THEN <<>>
    ELSE <<Head(text)>> \o Truncated(Tail(text), room - SegmentLength(Head(text)))

\* lines 111-117: one "role: content" line for each of the last three
\* messages of the history
RECURSIVE ContextLines(_)
ContextLines(msgs) ==
    IF msgs = <<>> THEN <<>>
    ELSE <<Prose(Head(msgs).role)>> \o Truncated(Head(msgs).content, 100)
         \o ContextLines(Tail(msgs))

RecentHistory ==
    SubSeq(History, IF Len(History) > 3 THEN Len(History) - 2 ELSE 1, Len(History))

\* the prompt classify_intent sends: the recent history and the message
ClassificationMessages ==
    <<[role |-> "user",
       content |-> <<Prose("Contesto conversazione recente:")>>
                   \o (IF RecentHistory = <<>> THEN <<Prose("Nessun contesto precedente")>>
                       ELSE ContextLines(RecentHistory))
                   \o <<Prose("Messaggio corrente da classificare:")>> \o LastMessage]>>

\* classify_intent up to its await: a forced prefix returns at once
ClassifyIntent ==
    /\ pc = "start"
    /\ entry = "teacher"
    /\ IF MatchingRows(LastMessage) # {}
       THEN /\ intent_result' = Some(ForcedIntentResult(LastMessage))
            /\ hist' = [hist EXCEPT !.classified = Some(ForcedIntentResult(LastMessage))]
            /\ pc' = "route"
       ELSE /\ pc' = "classify_call"
            /\ UNCHANGED <<intent_result, hist>>
    /\ UNCHANGED <<gatewayVars, inputs, loopVars, callVars, result, SAFE_MATH_FUNCTIONS>>

\* the classification call and the rest of classify_intent
ClassifierReply ==
    /\ pc = "classify_call"
    /\ \E o \in LlmOutcomes("openai", ClassifierContents) :
         LET r == IF Faulted(o) THEN ClassifyFallback ELSE ParseClassification(o.content)
         IN  /\ intent_result' = Some(r)
             /\ hist' = [hist EXCEPT !.classified = Some(r), !.classifierReply = Some(o)]
             /\ AfterLlmCall(o, LlmRequest("INTENT_CLASSIFIER_PROMPT",
                                           ClassificationMessages, "openai"))
    /\ pc' = "route"
    /\ UNCHANGED <<gatewayVars, inputs, loopVars, result, SAFE_MATH_FUNCTIONS>>

\* the routing without the confidence floor
RoutedIntentWithoutFloor(r) == r.intent

\* lines 1284-1286: the confidence floor
RoutedIntent(r) == IF r.confidence < ConfidenceFloor THEN "analytics" ELSE r.intent

\* lines 1284-1316 and the head of the generator: everything up to its
\* first await
Route ==
    /\ pc = "route"
    /\ LET r == TheVal(intent_result)
           intent == RoutedIntent(r)
           k == KindOfIntent(intent)
       IN  /\ intent_result' = Some([r EXCEPT !.intent = intent])
           /\ hist' = [hist EXCEPT !.routed = intent]
           /\ IF k # "none"
              THEN /\ kind' = k
                   /\ IF ToolsSupported
                      THEN /\ pc' = "loop"
                           /\ full_messages' = <<SystemMessage(AgentPrompt(k))>> \o messages
                           /\ max_iterations' = DefaultMaxIterations
                      ELSE /\ pc' = "notools_call"
                           /\ UNCHANGED <<full_messages, max_iterations>>
              ELSE /\ pc' = IF intent = "web_search" THEN "search" ELSE "analytics_call"
                   /\ UNCHANGED <<kind, full_messages, max_iterations>>
    /\ UNCHANGED <<gatewayVars, inputs, iteration, artifact, last_content, results, callVars, result,
                   SAFE_MATH_FUNCTIONS>>

\* the except branch of run_teacher_agent takes over
Caught == hist' = [hist EXCEPT !.caught = TRUE]

\* one iteration of a content loop, from its backend call to the next; the
\* locals of the generator are gone once it has returned or raised
ContentLoopIteration ==
    /\ pc = "loop"
    /\ entry = "teacher"
    /\ \E resp \in ContentResponses(kind, NextId(full_messages)) :
         LET out == ContentIteration(kind, full_messages, artifact, iteration,
                                     max_iterations, resp)
             go == out.ctl = "loop"
         IN  /\ calls' = calls + 1
             /\ loopCalls' = loopCalls + 1
             /\ lastRequest' = Some(ClientRequest(full_messages, ToolManifest(kind)))
             /\ full_messages' = IF go THEN out.msgs ELSE <<>>
             /\ artifact' = IF go THEN out.art ELSE None
             /\ iteration' = IF go THEN iteration + 1 ELSE 0
             /\ pc' = CASE out.ctl = "loop" -> "loop"
                        [] out.ctl = "return" -> "done"
                        [] out.ctl = "raise" -> "fallback_call"
             /\ result' = IF out.ctl = "return" THEN Some(ReturnedText(out.text)) ELSE None
             /\ hist' = [hist EXCEPT
                            !.validated = @ \cup out.validated,
                            !.captured = IF go THEN @ ELSE out.art,
                            !.failed = out.failed,
                            !.allTool = @ /\ resp.type = "tool_calls",
                            !.final = IF resp.type = "final" THEN Some(OrEmpty(resp.content)) ELSE @,
                            !.ending = out.ending,
                            !.caught = (out.ctl = "raise")]
    /\ UNCHANGED <<gatewayVars, inputs, intent_result, kind, max_iterations, last_content, results,
                   SAFE_MATH_FUNCTIONS>>

\* generate_<kind>_without_tools: one completion, repaired for presentations
WithoutToolsReply ==
    /\ pc = "notools_call"
    /\ \E o \in LlmOutcomes(provider, WithoutToolsContents(kind)) :
         LET ret == IF Faulted(o) THEN [ok |-> FALSE] ELSE WithoutToolsReturn(kind, o.content)
         IN  /\ AfterLlmCall(o, LlmRequest(AgentPrompt(kind),
                                           WithoutToolsMessages(kind, messages), provider))
             /\ hist' = [hist EXCEPT !.toolFree = @ + 1, !.toolFreeReply = Some(o),
                                     !.caught = ~ret.ok]
             /\ IF ret.ok
                THEN /\ result' = Some(ret.value)
                     /\ pc' = "done"
                ELSE /\ pc' = "fallback_call"
                     /\ UNCHANGED result
    /\ messages' = CallerMessages(kind, messages)
    /\ UNCHANGED <<gatewayVars, entry, provider, apiKey, argument, context, intent_result, loopVars,
                   SAFE_MATH_FUNCTIONS>>

\* web_search_service.search: it returns a list and never raises
Search ==
    /\ pc = "search"
    /\ \E found \in SearchOutcomes :
         /\ results' = found
         /\ pc' = IF found = <<>> THEN "analytics_call" ELSE "web_call"
    /\ UNCHANGED <<gatewayVars, inputs, intent_result, kind, max_iterations, iteration, artifact,
                   full_messages, last_content, callVars, result, SAFE_MATH_FUNCTIONS, hist>>

\* the completion of generate_with_web_search over the search results
WebSearchCompletion ==
    /\ pc = "web_call"
    /\ \E o \in LlmOutcomes(provider, WebSearchContents) :
         /\ AfterLlmCall(o, LlmRequest("web_search_prompt", messages, provider))
         /\ IF Faulted(o) \/ o.content = None
            THEN /\ pc' = "fallback_call"
                 /\ Caught
                 /\ UNCHANGED result
            ELSE /\ result' = Some(ReturnedText(WebSearchReply(TheVal(o.content), results)))
                 /\ pc' = "done"
                 /\ UNCHANGED hist
    /\ UNCHANGED <<gatewayVars, inputs, intent_result, loopVars, SAFE_MATH_FUNCTIONS>>

\* generate_with_analytics called from the try block
AnalyticsCompletion ==
    /\ pc = "analytics_call"
    /\ \E o \in LlmOutcomes(provider, AnalyticsContents) :
         /\ AfterLlmCall(o, LlmRequest(AnalyticsPrompt(context), messages, provider))
         /\ IF Faulted(o)
            THEN /\ pc' = "fallback_call"
                 /\ Caught
                 /\ UNCHANGED result
            ELSE /\ result' = Some(ReturnedContent(o.content))
                 /\ pc' = "done"
                 /\ UNCHANGED hist
    /\ UNCHANGED <<gatewayVars, inputs, intent_result, loopVars, SAFE_MATH_FUNCTIONS>>

\* lines 1318-1321: generate_with_analytics called from the except branch;
\* nothing catches what it raises
FallbackCompletion ==
    /\ pc = "fallback_call"
    /\ \E o \in LlmOutcomes(provider, AnalyticsContents) :
         /\ AfterLlmCall(o, LlmRequest(AnalyticsPrompt(context), messages, provider))
         /\ IF Faulted(o)
            THEN /\ pc' = "raised"
                 /\ UNCHANGED result
            ELSE /\ result' = Some(ReturnedContent(o.content))
                 /\ pc' = "done"
    /\ UNCHANGED <<gatewayVars, inputs, intent_result, loopVars, SAFE_MATH_FUNCTIONS, hist>>

\* run_math_agent up to its first await (lines 311-330)
MathStart ==
    /\ pc = "start"
    /\ entry = "math"
    /\ IF ToolsSupported
       THEN /\ pc' = "math_loop"
            /\ full_messages' = <<SystemMessage("MATH_AGENT_SYSTEM_PROMPT")>> \o messages
       ELSE /\ pc' = "math_notools_call"
            /\ UNCHANGED full_messages
    /\ UNCHANGED <<gatewayVars, inputs, teacherVars, max_iterations, iteration, last_content, callVars,
                   result, SAFE_MATH_FUNCTIONS, hist>>

\* lines 316-323: the completion without tools; its faults are not caught
MathWithoutToolsReply ==
    /\ pc = "math_notools_call"
    /\ \E o \in LlmOutcomes(provider, MathContents) :
         /\ AfterLlmCall(o, LlmRequest("MATH_AGENT_SYSTEM_PROMPT", messages, provider))
         /\ hist' = [hist EXCEPT !.toolFree = @ + 1, !.toolFreeReply = Some(o)]
         /\ IF Faulted(o)
            THEN /\ pc' = "raised"
                 /\ UNCHANGED result
            ELSE /\ result' = Some(ReturnedContent(o.content))
                 /\ pc' = "done"
    /\ UNCHANGED <<gatewayVars, inputs, intent_result, loopVars, SAFE_MATH_FUNCTIONS>>

\* the state after one pass of the loop; the locals are gone once
\* run_math_agent has returned or raised
MathLoopStep(resp, out) ==
    /\ calls' = calls + 1
    /\ loopCalls' = loopCalls + 1
    /\ lastRequest' = Some(ClientRequest(full_messages, "MATH_TOOLS"))
    /\ full_messages' = IF out.ctl = "loop" THEN out.msgs ELSE <<>>
    /\ iteration' = IF out.ctl = "loop" THEN iteration + 1 ELSE 0
    /\ last_content' = IF out.ctl = "loop" THEN resp.content ELSE None
    /\ SAFE_MATH_FUNCTIONS' = out.table
    /\ pc' = CASE out.ctl = "loop" -> "math_loop"
               [] out.ctl = "return" -> "done"
               [] out.ctl = "raise" -> "raised"
    /\ result' = IF out.ctl = "return" THEN Some(ReturnedText(out.text)) ELSE None
    /\ hist' = [hist EXCEPT
                   !.failed = out.failed,
                   !.allTool = @ /\ resp.type = "tool_calls",
                   !.final = IF resp.type = "final" THEN Some(OrEmpty(resp.content)) ELSE @,
                   !.ending = out.ending]

\* one iteration of run_math_agent's loop, from its backend call to the next
MathLoopIteration ==
    /\ pc = "math_loop"
    /\ \E resp \in MathResponses(NextId(full_messages)) :
         MathLoopStep(resp, MathIteration(full_messages, SAFE_MATH_FUNCTIONS, iteration,
                                          max_iterations, resp))
    /\ UNCHANGED <<gatewayVars, inputs, teacherVars, max_iterations>>

Next ==
    \/ ClassifyIntent
    \/ ClassifierReply
    \/ Route
    \/ ContentLoopIteration
    \/ WithoutToolsReply
    \/ Search
    \/ WebSearchCompletion
    \/ AnalyticsCompletion
    \/ FallbackCompletion

MathNext ==
    \/ MathStart
    \/ MathWithoutToolsReply
    \/ MathLoopIteration

\* one invocation of run_teacher_agent
Spec == Init /\ [][Next]_vars

\* one invocation of run_math_agent
MathSpec == MathInit /\ [][MathNext]_vars

\* one invocation of either agent
AgentsSpec == (Init \/ MathInit) /\ [][Next \/ MathNext]_vars

-----------------------------------------------------------------------------
(* math_agent.py: the sandbox tools called on their own.  The module is    *)
(* loaded once; safe_calculator and safe_python_math are then called by    *)
(* any number of invocations, all of which see the module's                *)
(* SAFE_MATH_FUNCTIONS.                                                    *)

\* calculator calls made before the call under observation
MaxEarlierCalls == 2
\* largest integer literal of the arithmetic expressions
MaxLiteral == 3

\* Arithmetic expressions over integer literals, as trees.
IntLit(n) == [n |-> "int", v |-> n]
BinExpr(op, l, r) == [n |-> "bin", op |-> op, l |-> l, r |-> r]
NegExpr(t) == [n |-> "unary", op |-> "-", arg |-> t]

ArithOps == {"+", "-", "*"}
Literals == {IntLit(n) : n \in 0..MaxLiteral}
SmallTrees ==
    Literals
    \cup {BinExpr(op, l, r) : op \in ArithOps, l \in Literals, r \in Literals}
    \cup {NegExpr(l) : l \in Literals}
ArithmeticTrees ==
    SmallTrees
    \cup {BinExpr(op, l, r) : op \in ArithOps, l \in SmallTrees, r \in Literals}
    \cup {BinExpr(op, l, r) : op \in ArithOps, l \in Literals, r \in SmallTrees}
    \cup {NegExpr(t) : t \in SmallTrees}

\* how tightly the outermost operator of a tree binds
Precedence(t) ==
    CASE t.n = "int" -> 3
      [] t.n = "unary" -> 2
      [] t.n = "bin" /\ t.op = "*" -> 1
      [] OTHER -> 0

\* the text of a tree, with the parentheses standard precedence requires
RECURSIVE Render(_)
Render(t) ==
    CASE t.n = "int" -> <<TInt(t.v)>>
      [] t.n = "unary" ->
            IF Precedence(t.arg) < 2 THEN <<TOp("-"), LP>> \o Render(t.arg) \o <<RP>>
            ELSE <<TOp("-")>> \o Render(t.arg)
      [] t.n = "bin" ->
            (IF Precedence(t.l) < Precedence(t) THEN <<LP>> \o Render(t.l) \o <<RP>>
             ELSE Render(t.l))
            \o <<TOp(t.op)>>
            \o (IF Precedence(t.r) <= Precedence(t) THEN <<LP>> \o Render(t.r) \o <<RP>>
                ELSE Render(t.r))

\* the value of a tree
RECURSIVE ValueOf(_)
ValueOf(t) ==
    CASE t.n = "int" -> t.v
      [] t.n = "unary" -> 0 - ValueOf(t.arg)
      [] t.n = "bin" /\ t.op = "+" -> ValueOf(t.l) + ValueOf(t.r)
      [] t.n = "bin" /\ t.op = "-" -> ValueOf(t.l) - ValueOf(t.r)
      [] t.n = "bin" /\ t.op = "*" -> ValueOf(t.l) * ValueOf(t.r)

\* further expressions and snippets
UpperCaseExpression == <<TName("PI")>>
RebindThenUpperCase ==
    <<LP, TName("pi"), TOp(":="), TInt(3), RP, TOp("+"), TName("PI")>>
CircleExpression == <<TName("pi"), TOp("*"), TInt(2)>>
ClassExpression == <<LP, TInt(1), RP, TOp("."), TName("__class__")>>
RootExpression == <<Blank, TOp("<root>"), LP, TInt(16), RP>>
CaretExpression == <<TInt(2), TOp("^"), TInt(3)>>
ClassSnippet == <<Assign("result", ClassExpression)>>
UndefinedSnippet ==
    <<Assign("x", <<TInt(1)>>), ExprStmt(<<TName("foo"), LP, TName("x"), RP>>)>>
ModuleSnippet ==
    <<PrintStmt(<<TName("math"), TOp("."), TName("sqrt"), LP, TInt(16), RP>>)>>
BrokenSnippet == <<PrintStmt(<<TInt(1)>>), ExprStmt(<<TName("os"), TOp(".")>>)>>

\* a call of a tool: its name, its argument and, for the arithmetic
\* expressions, the tree the text was written from
ToolCall(tool, arg) == [tool |-> tool, arg |-> arg, tree |-> None]

CalculatorExpressions ==
    {SumExpression, ForbiddenExpression, RebindingExpression, UpperCaseExpression,
     RebindThenUpperCase, CircleExpression, ClassExpression, RootExpression,
     CaretExpression}

Snippets ==
    {ResultSnippet, ImportSnippet, ClassSnippet, UndefinedSnippet, ModuleSnippet,
     BrokenSnippet}

SandboxCalls ==
    {[tool |-> "calculator", arg |-> PyStr(Render(t)), tree |-> Some(t)] :
        t \in ArithmeticTrees}
    \cup {ToolCall("calculator", PyStr(e)) : e \in CalculatorExpressions}
    \cup {ToolCall("python_math", PyStr(c)) : c \in Snippets}
    \cup {ToolCall("calculator", PyInt(5)), ToolCall("python_math", PyInt(5))}

\* the expressions earlier invocations had the calculator evaluate
EarlierExpressions == {SumExpression, RebindingExpression, RebindThenUpperCase}

\* the variables of an agent run, which a tool called on its own leaves alone
agentVars == <<provider, apiKey, messages, context, intent_result, kind, max_iterations,
               iteration, full_messages, artifact, last_content, results, calls,
               loopCalls, lastRequest>>

NoAgentRun ==
    /\ provider = "openai"
    /\ apiKey = TRUE
    /\ messages = <<>>
    /\ context = ""
    /\ intent_result = None
    /\ kind = "none"
    /\ max_iterations = 0
    /\ iteration = 0
    /\ full_messages = <<>>
    /\ artifact = None
    /\ last_content = None
    /\ results = <<>>
    /\ calls = 0
    /\ loopCalls = 0
    /\ lastRequest = None

\* the module is loaded and a tool is about to be called
SandboxInit ==
    /\ entry = "sandbox"
    /\ argument \in {Some(c) : c \in SandboxCalls}
    /\ pc = "start"
    /\ result = None
    /\ SAFE_MATH_FUNCTIONS = InitialSafeMathFunctions
    /\ GatewayLoaded
    /\ hist = NoHistory
    /\ NoAgentRun

\* safe_calculator called by an earlier invocation
EarlierCalculatorCall ==
    /\ entry = "sandbox"
    /\ pc = "start"
    /\ hist.earlier < MaxEarlierCalls
    /\ \E e \in EarlierExpressions :
         SAFE_MATH_FUNCTIONS' = safe_calculator(PyStr(e), SAFE_MATH_FUNCTIONS).table
    /\ hist' = [hist EXCEPT !.earlier = @ + 1]
    /\ UNCHANGED <<gatewayVars, entry, argument, pc, result, agentVars>>

\* what a call of safe_calculator leaves behind
CalculatorCalled(r) ==
    /\ result' = Some(r.result)
    /\ SAFE_MATH_FUNCTIONS' = r.table

\* safe_calculator(expression)
CallCalculator ==
    /\ entry = "sandbox"
    /\ pc = "start"
    /\ TheVal(argument).tool = "calculator"
    /\ CalculatorCalled(safe_calculator(TheVal(argument).arg, SAFE_MATH_FUNCTIONS))
    /\ hist' = [hist EXCEPT !.before = Some(SAFE_MATH_FUNCTIONS)]
    /\ pc' = "done"
    /\ UNCHANGED <<gatewayVars, entry, argument, agentVars>>

\* safe_python_math(code)
CallPythonMath ==
    /\ entry = "sandbox"
    /\ pc = "start"
    /\ TheVal(argument).tool = "python_math"
    /\ result' = Some(safe_python_math(TheVal(argument).arg))
    /\ hist' = [hist EXCEPT !.before = Some(SAFE_MATH_FUNCTIONS)]
    /\ pc' = "done"
    /\ UNCHANGED <<gatewayVars, entry, argument, agentVars, SAFE_MATH_FUNCTIONS>>

SandboxNext ==
    \/ EarlierCalculatorCall
    \/ CallCalculator
    \/ CallPythonMath

\* calls of the sandbox tools on a loaded module
SandboxSpec == SandboxInit /\ [][SandboxNext]_vars

(***************************************************************************)
(* The tool executors called on their own: one set of arguments is          *)
(* validated and the validated artifact is written into a fenced block.     *)
(***************************************************************************)

MaxOptions == 7
MaxPoints == 2

OptionTexts == <<"1/4", "1/2", "3/4", "1", "5/4", "3/2", "7/4">>

\* a question with n options whose correct one is at index c
QuestionOf(n, c) ==
    [question |-> "Quanto fa 1/2 + 1/4?",
     options |-> [i \in 1..n |-> OptionTexts[((i - 1) % Len(OptionTexts)) + 1]],
     correctIndex |-> c]

\* the record with one more key
WithKey(rec, key, val) ==
    [f \in DOMAIN rec \cup {key} |-> IF f = key THEN val ELSE rec[f]]

\* the points a question can carry: null, or an integer
PointsGiven == {None} \cup {Some(p) : p \in -1..MaxPoints}

OptionQuestions == {QuestionOf(n, c) : n \in 1..MaxOptions, c \in -1..MaxOptions}

PointQuestions ==
    {QuestionOf(2, 1)} \cup {WithKey(QuestionOf(2, 1), "points", p) : p \in PointsGiven}

QuizOf(questions) ==
    [title |-> "Frazioni", description |-> "Quiz sulle frazioni", questions |-> questions]

QuizArguments ==
    LET one == {QuizOf(<<q>>) : q \in OptionQuestions \cup PointQuestions}
        two == {QuizOf(<<q, r>>) : q \in PointQuestions, r \in PointQuestions}
    IN  one \cup two \cup {WithKey(a, "total_points", t) : a \in two, t \in {None, Some(5)}}

\* the arguments a create tool can be called with
ExecutorArguments(k) ==
    {JsonObj(a) : a \in {ValidArgsA(k), ValidArgsB(k), InvalidArgs(k)}}
        \cup (IF k = "quiz" THEN {JsonObj(a) : a \in QuizArguments} ELSE {})

\* a create tool is about to be executed
ExecutorInit ==
    /\ entry = "executor"
    /\ kind \in Kinds
    /\ argument \in {Some(a) : a \in ExecutorArguments(kind)}
    /\ pc = "start"
    /\ result = None
    /\ artifact = None
    /\ provider = "openai"
    /\ apiKey = TRUE
    /\ messages = <<>>
    /\ context = ""
    /\ intent_result = None
    /\ max_iterations = DefaultMaxIterations
    /\ iteration = 0
    /\ full_messages = <<>>
    /\ last_content = None
    /\ results = <<>>
    /\ calls = 0
    /\ loopCalls = 0
    /\ lastRequest = None
    /\ SAFE_MATH_FUNCTIONS = InitialSafeMathFunctions
    /\ GatewayLoaded
    /\ hist = NoHistory

executorVars == <<entry, argument, provider, apiKey, messages, context, intent_result, kind,
                  max_iterations, iteration, full_messages, last_content, results, calls,
                  loopCalls, lastRequest, SAFE_MATH_FUNCTIONS>>

\* execute_create_quiz, _lesson, _exercise, _presentation on the arguments
ExecuteTool ==
    /\ entry = "executor"
    /\ pc = "start"
    /\ LET ret == ExecuteCreate(kind, TheVal(argument))
       IN  /\ artifact' = IF ret.ok THEN Some(ret.data) ELSE None
           /\ hist' = [hist EXCEPT !.validated = IF ret.ok THEN {ret.data} ELSE {},
                                   !.caught = ~ret.ok]
           /\ pc' = IF ret.ok THEN "validated" ELSE "done"
    /\ UNCHANGED <<gatewayVars, result, executorVars>>

\* the generator returns its text with the artifact in a fenced block: after
\* a response without tool calls, or when the iterations are used up
EmitFence ==
    /\ entry = "executor"
    /\ pc = "validated"
    /\ \E content \in {None, Some(<<Prose("Ecco il materiale richiesto.")>>)} :
       \E text \in {FinalReply(kind, content, artifact), ExhaustedReply(kind, artifact)} :
            result' = Some(ReturnedText(text))
    /\ pc' = "done"
    /\ UNCHANGED <<gatewayVars, artifact, hist, executorVars>>

ValidatorNext ==
    \/ ExecuteTool
    \/ EmitFence

\* the validators and the emitted block, for every set of arguments
ValidatorSpec == ExecutorInit /\ [][ValidatorNext]_vars

-----------------------------------------------------------------------------
(* realtime/gateway.py: connect and disconnect.  Each handler changes the  *)
(* module's dicts before its first await; what follows the await only      *)
(* emits.  A disconnect of a sid can therefore arrive while the connect    *)
(* handler of that sid is still emitting.                                  *)

\* connections the transport may hold at one time
MaxSids == 3

Sids == 1..MaxSids
SessionIds == {"s1", "s2"}
StudentIds == {"st1", "st2"}

\* the payloads decode_token may yield
StudentPayload(id, session_id) ==
    [type |-> "student", sub |-> id, session_id |-> session_id, nickname |-> "Ada"]
TeacherPayload == [type |-> "access", sub |-> "t1", tenant_id |-> "tenant"]
RefreshPayload == [type |-> "refresh", sub |-> "t1"]

\* a token, by what decode_token makes of it (None for a bad token)
Token(payload) == [jwt |-> payload]
decode_token(token) == token.jwt

Tokens ==
    {Token(None), Token(Some(TeacherPayload)), Token(Some(RefreshPayload))}
    \cup {Token(Some(StudentPayload(id, s))) : id \in StudentIds, s \in SessionIds}

\* the auth argument of connect: None, or a dict with or without a token
Auths == {None} \cup {Some([token |-> None])} \cup {Some([token |-> Some(t)]) : t \in Tokens}

\* lines 25-44
get_user_from_token(token) ==
    LET payload == decode_token(token)
    IN  IF payload = None THEN None
        ELSE IF TheVal(payload).type = "student"
        THEN Some([type |-> "student", id |-> TheVal(payload).sub,
                   session_id |-> TheVal(payload).session_id,
                   nickname |-> TheVal(payload).nickname])
        ELSE IF TheVal(payload).type = "access"
        THEN Some([type |-> "teacher", id |-> TheVal(payload).sub,
                   tenant_id |-> TheVal(payload).tenant_id])
        ELSE None

\* lines 49-55: the user connect accepts, None when it returns False
ConnectUser(auth) ==
    IF auth = None \/ TheVal(auth).token = None THEN None
    ELSE get_user_from_token(TheVal(TheVal(auth).token))

\* d[key] = val, d.pop(key, None)
DictSet(d, key, val) == [x \in DOMAIN d \cup {key} |-> IF x = key THEN val ELSE d[x]]
DictPop(d, key) == [x \in DOMAIN d \ {key} |-> d[x]]

\* lines 67-69
PresenceWith(presence, session_id, sid) ==
    DictSet(presence, session_id,
            (IF session_id \in DOMAIN presence THEN presence[session_id] ELSE {}) \cup {sid})

\* a disconnect that leaves the presence sets alone
PresenceKept(presence, session_id, sid) == presence

\* lines 113-114
PresenceWithout(presence, session_id, sid) ==
    IF session_id \in DOMAIN presence
    THEN [presence EXCEPT ![session_id] = @ \ {sid}]
    ELSE presence

\* what the transport knows of each sid: its phase ("idle": no connection;
\* "entering": connected, the connect handler is at its awaits; "connected";
\* "dropped": disconnected while the connect handler is at its awaits) and
\* the user of its token
NoConnections ==
    [phase |-> [sid \in Sids |-> "idle"], client |-> [sid \in Sids |-> None]]

GatewayInit ==
    /\ entry = "gateway"
    /\ argument = None
    /\ pc = "serving"
    /\ result = None
    /\ SAFE_MATH_FUNCTIONS = InitialSafeMathFunctions
    /\ GatewayLoaded
    /\ hist = NoConnections
    /\ NoAgentRun

serviceVars == <<entry, argument, pc, result, agentVars, SAFE_MATH_FUNCTIONS>>

\* connect(sid, environ, auth) up to its first await (lines 49-69), or to
\* its return False
Connect ==
    /\ entry = "gateway"
    /\ \E sid \in Sids, auth \in Auths :
         LET user == ConnectUser(auth)
         IN  /\ hist.phase[sid] = "idle"
             /\ IF user = None
                THEN UNCHANGED <<gatewayVars, hist>>
                ELSE /\ connected_users' = DictSet(connected_users, sid, TheVal(user))
                     /\ IF TheVal(user).type = "student"
                        THEN /\ student_nicknames' =
                                    DictSet(student_nicknames, TheVal(user).id,
                                            TheVal(user).nickname)
                             /\ session_presence' =
                                    PresenceWith(session_presence,
                                                 TheVal(user).session_id, sid)
                        ELSE UNCHANGED <<student_nicknames, session_presence>>
                     /\ hist' = [hist EXCEPT !.phase[sid] = "entering",
                                             !.client[sid] = user]
                     /\ UNCHANGED user_activities
    /\ UNCHANGED serviceVars

\* the rest of connect (lines 71-102): rooms entered, events emitted,
\* return True; the dicts are not touched
ConnectNotified ==
    /\ entry = "gateway"
    /\ \E sid \in Sids :
         /\ hist.phase[sid] \in {"entering", "dropped"}
         /\ hist' = [hist EXCEPT
                        !.phase[sid] = IF @ = "entering" THEN "connected" ELSE "idle",
                        !.client[sid] = IF hist.phase[sid] = "entering" THEN @ ELSE None]
    /\ UNCHANGED <<gatewayVars, serviceVars>>

\* disconnect(sid) (lines 107-141), also for a sid whose connect returned
\* False; its awaits only emit
Disconnect ==
    /\ entry = "gateway"
    /\ \E sid \in Sids :
         /\ hist.phase[sid] \in {"idle", "entering", "connected"}
         /\ connected_users' = DictPop(connected_users, sid)
         /\ IF sid \in DOMAIN connected_users /\ connected_users[sid].type = "student"
            THEN /\ session_presence' =
                        PresenceWithout(session_presence,
                                        connected_users[sid].session_id, sid)
                 /\ user_activities' = DictPop(user_activities, connected_users[sid].id)
            ELSE UNCHANGED <<session_presence, user_activities>>
         /\ hist' = [hist EXCEPT
                        !.phase[sid] = IF @ = "entering" THEN "dropped" ELSE "idle",
                        !.client[sid] = IF hist.phase[sid] = "entering" THEN @ ELSE None]
    /\ UNCHANGED <<student_nicknames, serviceVars>>

GatewayNext ==
    \/ Connect
    \/ ConnectNotified
    \/ Disconnect

\* connect and disconnect events on the loaded gateway
GatewaySpec == GatewayInit /\ [][GatewayNext]_vars

-----------------------------------------------------------------------------
(* Properties                                                              *)

\* the invocation's loop is about to issue a backend call
AtBackendCall == pc \in {"loop", "math_loop"}

\* the invocation's loop has ended (by a reply, or by an exception)
LoopEnded == hist.ending # "none"

\* the tool-role messages of msgs after position i that carry the id
Answers(msgs, i, id) ==
    {m \in (i + 1)..Len(msgs) : msgs[m].role = "tool" /\ msgs[m].tool_call_id = id}

\* every tool-call request of msgs has exactly one tool-role message after it
AllAnswered(msgs) ==
    \A i \in 1..Len(msgs) :
        "tool_calls" \in DOMAIN msgs[i] =>
            \A j \in 1..Len(msgs[i].tool_calls) :
                Cardinality(Answers(msgs, i, msgs[i].tool_calls[j].id)) = 1

\* the tool-role messages of msgs that carry the id
ToolMessagesFor(msgs, id) ==
    {m \in 1..Len(msgs) : msgs[m].role = "tool" /\ msgs[m].tool_call_id = id}

\* the invocation has returned a text
ReturnedAText == pc = "done" /\ result # None /\ TheVal(result).ret = "str"

\* the fenced blocks of a text
FencesOf(text) == {text[i] : i \in {j \in 1..Len(text) : text[j].seg = "fence"}}

\* C1: a tool-augmented loop with max_iterations = N issues at most N
\* backend calls, whatever the backend answers, and a backend that answers
\* every call with tool-call requests receives exactly N calls.
C1_AtMostNCallsExactlyNWhenAlwaysTool ==
    /\ loopCalls <= max_iterations
    /\ (LoopEnded /\ hist.allTool) => loopCalls = max_iterations

\* C2: whenever a tool-augmented loop issues a backend call, every tool-call
\* request of the assistant messages already in the sequence has exactly
\* one tool-role message with its tool_call_id later in the sequence.
C2_EveryRequestAnsweredAtEachCall == AtBackendCall => AllAnswered(full_messages)

\* C3: when a create tool call was validated during an invocation of
\* run_teacher_agent, the text the invocation returns contains a fenced
\* block of that kind whose JSON is a validated artifact of the run.
C3_ValidatedArtifactEmbedded ==
    (pc = "done" /\ hist.validated # {}) =>
        /\ ReturnedAText
        /\ \E a \in hist.validated :
              Fence(FenceTag(kind), JsonDumps(a)) \in FencesOf(TheVal(result).text)

\* C4: run_teacher_agent never raises to its caller, and what it returns is
\* a text.
C4_AlwaysATextNeverRaises ==
    /\ pc # "raised"
    /\ pc = "done" => ReturnedAText

\* C5: when a tool call of a response fails, the loop does not terminate on
\* it: it goes on to its next backend call (or has used its last iteration)
\* with exactly one tool-role message for that call in the sequence.
C5_FailureAnsweredAndLoopContinues ==
    hist.failed # {} =>
        \/ hist.ending = "exhausted"
        \/ /\ AtBackendCall
           /\ \A id \in hist.failed : Cardinality(ToolMessagesFor(full_messages, id)) = 1

\* the quiz arguments with k valid questions that produced the artifact
QuestionsRequested(a) ==
    {Len(args.questions) :
        args \in {x \in {ValidArgsA("quiz"), ValidArgsB("quiz")} :
                    execute_create_quiz(JsonObj(x)).data = a}}

\* C6: when the backend answers without tool calls the loop returns that
\* text, followed by the fenced artifact if one was captured and the text
\* lacks the fence of its kind; after a create_quiz request with k valid
\* questions the returned text contains a fenced quiz block with exactly k
\* questions and a non-empty title.
C6_FinalTextWithArtifact ==
    (hist.ending = "final" /\ pc = "done") =>
        LET final == TheVal(hist.final)
            text == TheVal(result).text
        IN  /\ ReturnedAText
            /\ IF hist.captured # None /\ ~HasFence(final, FenceTag(kind))
               THEN text = final \o <<Fence(FenceTag(kind), JsonDumps(TheVal(hist.captured)))>>
               ELSE text = final
            /\ (kind = "quiz" /\ hist.captured # None) =>
                  \E f \in FencesOf(text) :
                      /\ f.tag = FenceTag("quiz")
                      /\ JsonLoads(f.body).ok
                      /\ "questions" \in DOMAIN JsonLoads(f.body).val.v
                      /\ Len(JsonLoads(f.body).val.v.questions)
                            \in QuestionsRequested(TheVal(hist.captured))
                      /\ JsonLoads(f.body).val.v.title # ""

\* C7: when all max_iterations backend calls of a loop were used without a
\* response free of tool calls, the loop returns the captured artifact in
\* its fenced block, or the fixed apology when none was captured, and
\* nothing else.
C7_ExhaustionReply ==
    (LoopEnded /\ hist.final = None /\ loopCalls = max_iterations) =>
        /\ hist.ending = "exhausted"
        /\ result = Some(ReturnedText(
                IF entry = "math" THEN <<Prose(MathApology)>>
                ELSE IF hist.captured # None
                     THEN <<Prose(GeneratedPrefix(kind)),
                            Fence(FenceTag(kind), JsonDumps(TheVal(hist.captured)))>>
                     ELSE <<Prose(Apology(kind))>>))

\* the step run_teacher_agent's except branch takes
FallbackStep ==
    /\ pc' \in {"done", "raised"}
    /\ messages' = messages
    /\ context' = context
    /\ IF provider = "openai" /\ ~apiKey
       THEN calls' = calls /\ pc' = "raised"
       ELSE /\ calls' = calls + 1
            /\ TheVal(lastRequest').api = "llm_service.generate"
            /\ TheVal(lastRequest').system_prompt = <<"teacher_support", context>>
            /\ TheVal(lastRequest').messages = messages
            /\ TheVal(lastRequest').tools = "none"
    /\ pc' = "done" => result' \in {Some(ReturnedContent(c)) : c \in AnalyticsContents}

\* C8: an exception raised inside run_teacher_agent (by the selected
\* generator or the agent loop; classify_intent raises none) takes the
\* invocation to its except branch, whose outcome is that of exactly one
\* analytics completion over the caller's messages and context.
C8_ExceptionResolvesToAnalytics ==
    /\ [](hist.ending = "raised" => hist.caught)
    /\ [](hist.caught => pc \in {"fallback_call", "done", "raised"})
    /\ [][(hist.caught /\ pc = "fallback_call") => FallbackStep]_vars

\* C8 witness: a generator raised and the reply is the analytics text
C8_Witness ==
    /\ hist.caught
    /\ ReturnedAText
    /\ TheVal(lastRequest).system_prompt = <<"teacher_support", context>>

\* C9: a classification with confidence below 0.6 is routed to analytics,
\* whatever intent the classifier declared.
C9_LowConfidenceRoutedToAnalytics ==
    (hist.routed # "none" /\ TheVal(hist.classified).confidence < 60) =>
        /\ hist.routed = "analytics"
        /\ TheVal(intent_result).intent = "analytics"

\* C9 witness: the classifier answered web_search with confidence 0.4
C9_Witness ==
    /\ hist.routed = "analytics"
    /\ TheVal(hist.classified).intent = "web_search"
    /\ TheVal(hist.classified).confidence = 40

\* the tags of the fixed table that a message carries
TagsCarried(message) ==
    {t \in UNION {ModePrefixes[row].prefixes : row \in 1..Len(ModePrefixes)} :
        HasMarker(message, t)}

\* the intent the table maps a tag to
IntentOfTag(t) ==
    ModePrefixes[CHOOSE row \in 1..Len(ModePrefixes) : t \in ModePrefixes[row].prefixes].intent

\* the row of the table a tag belongs to
RowOfTag(t) == CHOOSE row \in 1..Len(ModePrefixes) : t \in ModePrefixes[row].prefixes

\* C10: for a message that carries a forced tag, classify_intent returns
\* the intent the table maps a carried tag to (the tag of the earliest row,
\* when the message carries several) with confidence 1.0, having issued no
\* backend call; the result is determined by the message.
C10_ForcedTagDeterministic ==
    (TagsCarried(LastMessage) # {} /\ hist.classified # None) =>
        LET r == TheVal(hist.classified)
        IN  /\ r.confidence = 100
            /\ \E t \in TagsCarried(LastMessage) :
                  /\ r.intent = IntentOfTag(t)
                  /\ \A u \in TagsCarried(LastMessage) : RowOfTag(t) <= RowOfTag(u)
            /\ pc = "route" => calls = 0

\* C10 witness: a message with two tags was classified without a call
C10_Witness ==
    /\ pc = "route"
    /\ Cardinality(TagsCarried(LastMessage)) = 2
    /\ TheVal(hist.classified).intent = "web_search"
    /\ TheVal(hist.classified).confidence = 100
    /\ calls = 0

\* the JSON object a reply of the classifier consists of, if it is one
ReplyObject(o) ==
    IF Faulted(o) \/ o.content = None THEN None
    ELSE LET loaded == JsonLoads(ClassifierJsonText(TheVal(o.content)))
         IN  IF loaded.ok /\ IsObj(loaded.val) THEN Some(loaded.val.v) ELSE None

\* the classification call raised, its reply is no JSON object, or the
\* reply names an intent outside the fixed set
UnusableReply(o) ==
    \/ ReplyObject(o) = None
    \/ \E d \in ReplyObject(o) : "intent" \in DOMAIN d /\ d.intent \notin TeacherIntents

\* C11: for a message without a forced tag, when the classification call
\* raises, its reply is no JSON object or names an intent outside the fixed
\* set, classify_intent returns {analytics, 0.5} and does not raise; every
\* result it returns has an intent of the fixed set and a confidence in
\* [0, 1].
C11_UnusableReplyGivesAnalyticsHalf ==
    /\ \A o \in hist.classifierReply :
          /\ hist.classified # None
          /\ pc # "raised" \/ hist.caught
          /\ UnusableReply(o) =>
                TheVal(hist.classified) = [intent |-> "analytics", confidence |-> 50,
                                           extracted_params |-> None]
    /\ \A r \in hist.classified :
          /\ r.intent \in TeacherIntents
          /\ r.confidence >= 0
          /\ r.confidence <= 100

\* C11 witness: the classifier named an intent outside the set and the
\* result is the fallback
C11_Witness ==
    /\ \E o \in hist.classifierReply :
          \E d \in ReplyObject(o) : "intent" \in DOMAIN d /\ d.intent = "text_editor"
    /\ TheVal(hist.classified) = [intent |-> "analytics", confidence |-> 50,
                                  extracted_params |-> None]

\* the generator of the routed kind (or run_math_agent) has ended
GeneratorEnded ==
    IF entry = "math" THEN pc \in {"done", "raised"}
    ELSE kind # "none" /\ pc \in {"done", "fallback_call", "raised"}

\* C12: when the provider is not 'openai' or no API key is configured, the
\* tool-augmented loop is not entered: no backend call carries a tool
\* manifest, and the generator requests exactly one completion without
\* tools.
C12_LoopBypassedWithoutToolSupport ==
    (provider # "openai" \/ ~apiKey) =>
        /\ loopCalls = 0
        /\ pc \notin {"loop", "math_loop"}
        /\ \A req \in lastRequest : req.tools = "none"
        /\ hist.toolFree <= 1
        /\ GeneratorEnded => hist.toolFree = 1

\* C12 witness: a quiz request served by a provider without tool calling
C12_Witness ==
    /\ provider = "anthropic"
    /\ kind = "quiz"
    /\ pc = "done"
    /\ hist.toolFree = 1
    /\ ~hist.caught
    /\ TheVal(lastRequest).system_prompt = AgentPrompt("quiz")
    /\ TheVal(lastRequest).tools = "none"

\* the generator without tools returned the model's reply c
ToolFreeReturned(c) ==
    /\ pc = "done"
    /\ kind # "none"
    /\ ~hist.caught
    /\ hist.toolFreeReply = Some([type |-> "content", content |-> Some(c)])

\* the JSON objects with the required keys of kind k that a text contains
\* outside any fence
LooseArtifacts(text, k) ==
    {text[i].body.val.v :
        i \in {j \in 1..Len(text) :
                 /\ text[j].seg = "json"
                 /\ text[j].body.syntax = "json"
                 /\ IsObj(text[j].body.val)
                 /\ RequiredKeys(k) \subseteq DOMAIN text[j].body.val.v}}

\* the replies a model may give on the path without tools
ToolFreeTexts == UNION {UNION WithoutToolsContents(k) : k \in Kinds}

\* C13: on the path without tools, when the model's reply has no fenced
\* block of the routed kind but contains a JSON object with that kind's
\* required top-level keys, the returned reply contains a fenced block of
\* the kind that holds that object.
C13_FenceReconstructedFromLooseJson ==
    \A c \in ToolFreeTexts :
        (ToolFreeReturned(c) /\ ~HasFence(c, FenceTag(kind))) =>
            \A obj \in LooseArtifacts(c, kind) :
                /\ ReturnedAText
                /\ \E f \in FencesOf(TheVal(result).text) :
                      f.tag = FenceTag(kind) /\ f.body = JsonText(JsonObj(obj))

\* the text ends with the warning mark and a warning sentence
EndsWithWarning(text) ==
    /\ Len(text) >= 2
    /\ text[Len(text) - 1] = Marker("warning")
    /\ text[Len(text)].seg = "prose"

\* C14: on the path without tools every returned reply contains the fenced
\* block of the routed kind or ends with a visible warning.
C14_FenceOrWarning ==
    (pc = "done" /\ kind # "none" /\ ~hist.caught /\ hist.toolFree = 1) =>
        /\ ReturnedAText
        /\ \/ HasFence(TheVal(result).text, FenceTag(kind))
           \/ EndsWithWarning(TheVal(result).text)

\* the identifiers an expression refers to
NamesOf(expr) == {expr[i].s : i \in {j \in 1..Len(expr) : expr[j].k = "name"}}

\* the identifiers a snippet refers to, and those it assigns itself
SnippetNames(code) ==
    UNION {NamesOf(code[i].expr) : i \in 1..Len(code)}
    \cup {code[i].id : i \in {j \in 1..Len(code) : code[j].op = "import"}}
AssignedBy(code) == {code[i].id : i \in {j \in 1..Len(code) : code[j].op = "assign"}}

\* the identifiers of a tool call that are outside the tool's allow-list:
\* the keys of SAFE_MATH_FUNCTIONS for the calculator; the names of
\* safe_globals, the members of math and the snippet's own variables for
\* python_math
OutsideAllowList(call) ==
    IF call.arg.py # "str" THEN {}
    ELSE IF call.tool = "calculator"
    THEN NamesOf(Normalize(call.arg.text)) \ DOMAIN InitialSafeMathFunctions
    ELSE SnippetNames(call.arg.text)
         \ (DOMAIN safe_globals \cup SafeFunctionNames \cup SafeConstantNames
            \cup AssignedBy(call.arg.text))

\* a snippet ran no statement: nothing was printed and nothing was bound
NothingExecuted(text) ==
    CompilesAll(text) =>
        /\ SnippetRun(text).output_lines = <<>>
        /\ SnippetRun(text).local_vars = EmptyEnv

\* a tool was called on its own and has returned
SandboxReturned == entry = "sandbox" /\ pc = "done"

\* C15: a calculator expression or python_math snippet that refers to an
\* identifier outside the tool's allow-list gets a failure result, and no
\* part of it is evaluated or executed: the calculator's table is as it was
\* and the snippet has printed and bound nothing.
C15_OutsideAllowListRejectedUnexecuted ==
    (SandboxReturned /\ OutsideAllowList(TheVal(argument)) # {}) =>
        /\ ~TheVal(result).success
        /\ SAFE_MATH_FUNCTIONS = TheVal(hist.before)
        /\ TheVal(argument).tool = "python_math" =>
              NothingExecuted(TheVal(argument).arg.text)

\* C16: no call changes state a later call reads: the calculator's table
\* is always the one the module was loaded with, and the result of an
\* expression is the one it has on a freshly loaded module.
C16_NoStateSharedAcrossCalls ==
    entry = "sandbox" =>
        /\ SAFE_MATH_FUNCTIONS = InitialSafeMathFunctions
        /\ (pc = "done" /\ TheVal(argument).tool = "calculator") =>
              TheVal(result) =
                  safe_calculator(TheVal(argument).arg, InitialSafeMathFunctions).result

\* C19: for an arithmetic expression over integer literals with +, -, * and
\* parentheses, safe_calculator returns success with the decimal string of
\* the expression's value under standard precedence as its output.
C19_ArithmeticValueAsDecimalString ==
    SandboxReturned =>
        \A t \in TheVal(argument).tree :
            TheVal(result) =
                [tool_name |-> "calculator", input_data |-> PyStr(Render(t)),
                 output |-> DecimalString(ValueOf(t)), success |-> TRUE,
                 error |-> None]

\* C19 witness: 2+2*3 was evaluated, after an earlier call rebound pi, and
\* gave "8"
C19_Witness ==
    /\ SandboxReturned
    /\ TheVal(argument).tree = Some(BinExpr("+", IntLit(2), BinExpr("*", IntLit(2), IntLit(3))))
    /\ TheVal(argument).arg = PyStr(SumExpression)
    /\ TheVal(hist.before) # InitialSafeMathFunctions
    /\ TheVal(result).success
    /\ TheVal(result).output = <<"8">>

\* a create tool accepted its arguments
Accepted(k) == entry = "executor" /\ kind = k /\ pc \in {"validated", "done"} /\ artifact # None

\* C17: every question of a quiz the validator accepts has between 2 and 6
\* options and a correctIndex that is at least 0 and less than the number
\* of its options.
C17_AcceptedQuizIndexInRange ==
    Accepted("quiz") =>
        \A i \in 1..Len(TheVal(artifact).questions) :
            LET q == TheVal(artifact).questions[i]
            IN  /\ Len(q.options) >= 2
                /\ Len(q.options) <= 6
                /\ q.correctIndex >= 0
                /\ q.correctIndex < Len(q.options)

\* a quiz is accepted whose question has six options, the last one correct
C17_Witness ==
    /\ Accepted("quiz")
    /\ Len(TheVal(artifact).questions[1].options) = 6
    /\ TheVal(artifact).questions[1].correctIndex = 5

\* the points of a question as given: an omitted key counts 1
GivenPoints(q) == IF "points" \in DOMAIN q THEN TheVal(q.points) ELSE 1

RECURSIVE SumGivenPoints(_)
SumGivenPoints(qs) ==
    IF qs = <<>> THEN 0 ELSE GivenPoints(Head(qs)) + SumGivenPoints(Tail(qs))

\* total_points is omitted and every question gives an integer or nothing
TotalOmitted(a) ==
    /\ "total_points" \notin DOMAIN a
    /\ \A i \in 1..Len(a.questions) :
          "points" \in DOMAIN a.questions[i] => a.questions[i].points # None

\* C20: an accepted quiz whose total_points is omitted gets as total_points
\* the sum of the points of its questions, a question of 0 points adding 0
\* and a question without points adding 1.
C20_OmittedTotalIsSumOfPoints ==
    (Accepted("quiz") /\ TotalOmitted(TheVal(argument).v)) =>
        TheVal(artifact).total_points = Some(SumGivenPoints(TheVal(argument).v.questions))

\* a dict as Python's == sees it: a member of a str enum equals its value
AsCompared(rec) == [f \in DOMAIN rec |-> JsonEncoded(f, rec[f])]

\* the emitted block parses to the artifact and validates to it again
RoundTrips(seg, k, art) ==
    LET parsed == JsonLoads(seg.body)
    IN  /\ parsed.ok
        /\ IsObj(parsed.val)
        /\ AsCompared(parsed.val.v) = AsCompared(art)
        /\ ExecuteCreate(k, parsed.val) = Returned(art)

\* C18: the JSON in the fenced block emitted for an accepted artifact parses
\* to a structure equal to the normalized artifact, and validating that
\* structure again accepts it and yields the same artifact.
C18_EmittedBlockRoundTrips ==
    (entry = "executor" /\ pc = "done" /\ artifact # None) =>
        /\ ReturnedAText
        /\ \E i \in 1..Len(TheVal(result).text) :
              /\ TheVal(result).text[i].seg = "fence"
              /\ TheVal(result).text[i].tag = FenceTag(kind)
              /\ RoundTrips(TheVal(result).text[i], kind, TheVal(artifact))

\* an exercise given as the str "hard" is emitted, and a quiz whose total
\* was computed
C18_Witness ==
    /\ entry = "executor"
    /\ pc = "done"
    /\ artifact # None
    /\ \/ /\ kind = "exercise"
          /\ TheVal(artifact).difficulty = Some(PyEnum("DifficultyLevel", "hard"))
          /\ HasFence(TheVal(result).text, FenceTag(kind))
       \/ /\ kind = "quiz"
          /\ "total_points" \notin DOMAIN TheVal(argument).v
          /\ TheVal(artifact).total_points = Some(3)
          /\ HasFence(TheVal(result).text, FenceTag(kind))

\* the tool-call requests the message sequence carries
RequestsIn(msgs) ==
    UNION {{msgs[i].tool_calls[j] : j \in 1..Len(msgs[i].tool_calls)} :
              i \in {n \in 1..Len(msgs) : "tool_calls" \in DOMAIN msgs[n]}}

\* the requests of the create tool that were executed (they have their
\* tool-role message) on arguments that satisfy the whole schema
AcceptedRequests(k, msgs) ==
    {tc \in RequestsIn(msgs) :
        /\ tc.function.name = ToolName(k)
        /\ ToolMessagesFor(msgs, tc.id) # {}
        /\ ExecuteCreate(k, LoadArguments(tc.function.arguments)).ok}

\* the normalized output of the most recent of them
LastAccepted(k, msgs) ==
    LET acc == AcceptedRequests(k, msgs)
    IN  IF acc = {} THEN None
        ELSE LET tc == CHOOSE t \in acc : \A u \in acc : u.id <= t.id
             IN  Some(ExecuteCreate(k, LoadArguments(tc.function.arguments)).data)

\* C21: whenever a content loop is about to call the backend, the captured
\* artifact is absent or is the normalized output of the most recent
\* create call whose arguments passed validation in full; a rejected call
\* leaves it as it was, and the artifact the loop ends with is one a
\* validation returned.
C21_ArtifactIsLastFullyValidated ==
    entry = "teacher" =>
        /\ pc = "loop" => artifact = LastAccepted(kind, full_messages)
        /\ hist.captured \subseteq hist.validated

\* a call was rejected while an artifact of an earlier call is held
C21_Witness ==
    /\ entry = "teacher"
    /\ pc = "loop"
    /\ hist.failed # {}
    /\ artifact # None
    /\ artifact = LastAccepted(kind, full_messages)

\* the tool-role message of a ToolResult: a success with its output, or a
\* failure with its error
IsToolResultMessage(m) ==
    /\ m.role = "tool"
    /\ Len(m.content) = 2
    /\ m.content[1] \in {Prose("Risultato: "), Prose("Errore: ")}

\* C22: whatever the arguments of a calculator or python_math request are,
\* run_math_agent gets a ToolResult for it (a success with an output or a
\* failure with an error) and no exception of a tool call leaves the loop:
\* the loop ends by an exception only when the backend call faulted.
C22_EveryPayloadGivesAToolResult ==
    entry = "math" =>
        /\ ~(hist.ending = "raised" /\ hist.allTool)
        /\ pc = "math_loop" =>
              \A tc \in RequestsIn(full_messages) :
                  \E m \in ToolMessagesFor(full_messages, tc.id) :
                      IsToolResultMessage(full_messages[m])

\* the requests of a response before position j all got their tool message
ReachedRequest(tcs, j, msgs) ==
    \A i \in 1..(j - 1) : ToolMessagesFor(msgs, tcs[i].id) # {}

\* the only tool-role message of the request is the generic failure
AnsweredBy(msgs, id, output) ==
    /\ Cardinality(ToolMessagesFor(msgs, id)) = 1
    /\ \A m \in ToolMessagesFor(msgs, id) : msgs[m].content = output

\* what one pass of a loop does with the requests of unknown tools: out is
\* the outcome of the pass, known the names the loop executes, generic the
\* failure output of each request
UnknownToolsSurvived(tcs, out, known, generic, last) ==
    /\ \A j \in 1..Len(tcs) :
          (tcs[j].name \notin known /\ ReachedRequest(tcs, j, out.msgs)) =>
              /\ AnsweredBy(out.msgs, tcs[j].id, generic[j])
              /\ j < Len(tcs) =>
                    \/ ToolMessagesFor(out.msgs, tcs[j + 1].id) # {}
                    \/ tcs[j + 1].name \in known /\ out.ctl = "raise"
                    \/ tcs[j + 1].id \in out.failed
    /\ (\A j \in 1..Len(tcs) : tcs[j].name \notin known) =>
          out.ctl = IF last THEN "return" ELSE "loop"

\* C23: in every pass of a content loop and of run_math_agent, a request
\* naming a tool the loop does not know gets the generic failure as its
\* tool-role message, the request after it is still executed, and a
\* response of such requests only lets the loop go on to its next backend
\* call (or, after the last iteration, to its reply).
C23_UnknownToolDoesNotEndTheRun ==
    /\ (entry = "teacher" /\ pc = "loop") =>
          \A resp \in ContentResponses(kind, NextId(full_messages)) :
              resp.type = "tool_calls" =>
                  UnknownToolsSurvived(resp.tool_calls,
                      ContentIteration(kind, full_messages, artifact, iteration,
                                       max_iterations, resp),
                      {ToolName(kind)},
                      [j \in 1..Len(resp.tool_calls) |->
                          UnknownToolOutput(resp.tool_calls[j].name)],
                      iteration = max_iterations - 1)
    /\ (entry = "math" /\ pc = "math_loop") =>
          \A resp \in MathResponses(NextId(full_messages)) :
              resp.type = "tool_calls" =>
                  UnknownToolsSurvived(resp.tool_calls,
                      MathIteration(full_messages, SAFE_MATH_FUNCTIONS, iteration,
                                    max_iterations, resp),
                      {"calculator", "python_math"},
                      [j \in 1..Len(resp.tool_calls) |->
                          <<Prose("Errore: "),
                            Chars(<<"Tool sconosciuto: ", resp.tool_calls[j].name>>)>>],
                      iteration = max_iterations - 1)

\* a loop is at its next backend call after a response whose first request
\* named an unknown tool and whose second request was executed
C23_Witness ==
    /\ AtBackendCall
    /\ \E i \in 1..Len(full_messages) :
          /\ "tool_calls" \in DOMAIN full_messages[i]
          /\ Len(full_messages[i].tool_calls) >= 2
          /\ full_messages[i].tool_calls[1].function.name \in {"unknown_tool", "plot"}
          /\ ToolMessagesFor(full_messages, full_messages[i].tool_calls[1].id) # {}
          /\ ToolMessagesFor(full_messages, full_messages[i].tool_calls[2].id) # {}

\* the n messages after position i are the tool-role messages of the first
\* n requests of the assistant message at i, in request order
FollowedInOrder(msgs, i, n) ==
    /\ i + n <= Len(msgs)
    /\ \A j \in 1..n :
          /\ msgs[i + j].role = "tool"
          /\ msgs[i + j].tool_call_id = msgs[i].tool_calls[j].id

\* C24: at every backend call of a loop, each assistant tool-call message
\* of the sequence is followed at once by the tool-role messages of all its
\* requests, in request order.
C24_RequestsAnsweredInOrderBeforeNextCall ==
    AtBackendCall =>
        \A i \in 1..Len(full_messages) :
            "tool_calls" \in DOMAIN full_messages[i] =>
                FollowedInOrder(full_messages, i, Len(full_messages[i].tool_calls))

\* generate_with_web_search has returned its reply over a non-empty search
WebSearchReturned ==
    entry = "teacher" /\ pc = "done" /\ results # <<>> /\ ~hist.caught

\* the text carries a sources section that lists at least one link
ContainsSourcesList(text) ==
    \E i \in 1..Len(text) :
        /\ text[i].seg = "marker"
        /\ text[i].s = "Fonti:"
        /\ \E j \in (i + 1)..Len(text) : text[j].seg = "link"

\* C25: the reply of a web search that found at least one result contains
\* a list of sources: the one the model wrote, or the links of all the
\* results appended to the model's reply.
C25_WebSearchReplyListsSources ==
    WebSearchReturned =>
        /\ ReturnedAText
        /\ ContainsSourcesList(TheVal(result).text)

\* C26: for a message that carries a forced tag, the result of
\* classify_intent carries as its extracted topic the message with the tag
\* removed and the surrounding whitespace stripped.
C26_ForcedResultCarriesTopic ==
    (TagsCarried(LastMessage) # {} /\ hist.classified # None) =>
        TheVal(hist.classified).extracted_params =
            Some(CleanMessage(LastMessage, FirstMatchingRow(LastMessage)))

IsPrefix(a, b) == Len(a) <= Len(b) /\ SubSeq(b, 1, Len(a)) = a

\* C27: while a content loop runs, every step leaves its message sequence
\* a prefix of the new one, and no step of run_teacher_agent, of
\* classify_intent or of a generator changes the caller's messages list.
C27_MessagesAppendOnlyCallerListUntouched ==
    [][/\ (entry = "teacher" /\ pc' = "loop") => IsPrefix(full_messages, full_messages')
       /\ entry = "teacher" => messages' = messages]_vars

\* the presentation generator without tools has sent the last message with
\* its reminder, and a loop has appended to its sequence
C27_Witness ==
    \/ /\ entry = "teacher"
       /\ kind = "presentation"
       /\ hist.toolFree = 1
       /\ \E req \in lastRequest :
             req.messages = EnhancedMessages(messages) /\ req.messages # messages
    \/ /\ entry = "teacher"
       /\ pc = "loop"
       /\ iteration = 2
       /\ Len(full_messages) > Len(messages) + 1

\* the create requests of a response whose arguments the schema rejects
RejectedAt(k, tcs) ==
    {j \in 1..Len(tcs) :
        tcs[j].name = ToolName(k) /\ ~ExecuteCreate(k, LoadArguments(tcs[j].arguments)).ok}

\* the tool-role message of a request that does not raise
ExpectedToolMessage(k, tc) ==
    ToolMessage(tc.id,
        IF tc.name = ToolName(k)
        THEN SuccessOutput(k, ExecuteCreate(k, LoadArguments(tc.arguments)).data)
        ELSE UnknownToolOutput(tc.name))

\* the message sequence at the moment the pass over resp raises
MessagesWhenRaised(k, msgs, resp) ==
    IF resp.type = "fault" THEN msgs
    ELSE LET first == CHOOSE j \in RejectedAt(k, resp.tool_calls) :
                          \A other \in RejectedAt(k, resp.tool_calls) : j <= other
         IN  Append(msgs, AssistantToolCallMessage(resp.content, resp.tool_calls))
                 \o [j \in 1..(first - 1) |-> ExpectedToolMessage(k, resp.tool_calls[j])]

\* the pass over resp raises: the backend call faults or a create call is
\* rejected
PassRaises(k, resp) ==
    \/ resp.type = "fault"
    \/ resp.type = "tool_calls" /\ RejectedAt(k, resp.tool_calls) # {}

\* what a content loop does with an exception raised in the pass over resp
ExceptionHandled(k, msgs, art, it, n, resp) ==
    LET out == ContentIteration(k, msgs, art, it, n, resp)
    IN  IF it < n - 1
        THEN out.ctl = "loop" /\ out.msgs = MessagesWhenRaised(k, msgs, resp)
        ELSE out.ctl = "raise"

\* C28: in a content loop an exception raised in an iteration before the
\* last (a backend fault, a rejected create call) is swallowed and the loop
\* goes to the next iteration with the message sequence as it stood when
\* the exception was raised; in the last iteration the exception is raised
\* to the caller of the loop.
C28_ExceptionSwallowedUntilLastIteration ==
    /\ [](entry = "teacher" /\ pc = "loop" =>
            \A resp \in ContentResponses(kind, NextId(full_messages)) :
                PassRaises(kind, resp) =>
                    ExceptionHandled(kind, full_messages, artifact, iteration,
                                     max_iterations, resp))
    /\ [][(entry = "teacher" /\ pc = "loop" /\ pc' = "loop") =>
            iteration' = iteration + 1]_vars

\* the loop is at its second backend call after a rejected create call
C28_Witness ==
    /\ entry = "teacher"
    /\ pc = "loop"
    /\ iteration = 1
    /\ hist.failed # {}
    /\ "tool_calls" \in DOMAIN full_messages[Len(full_messages)]

\* C29: one invocation of run_teacher_agent issues at most 5 backend calls
\* (the classification, at most 3 calls of a loop, the analytics call of
\* the except branch), and at most 3 as long as no loop call was made.
C29_BackendCallsBounded ==
    entry = "teacher" =>
        /\ calls <= 5
        /\ loopCalls <= 3
        /\ loopCalls = 0 => calls <= 3

\* the classification, three loop calls and the call of the except branch
\* were all made
C29_Witness ==
    /\ entry = "teacher"
    /\ pc = "done"
    /\ calls = 5
    /\ loopCalls = 3
    /\ hist.caught

\* the sids the transport holds a connection for, and those of students
ConnectedSids == {sid \in Sids : hist.phase[sid] \in {"entering", "connected"}}
ConnectedStudents == {sid \in ConnectedSids : TheVal(hist.client[sid]).type = "student"}

\* C30: after any sequence and interleaving of connect and disconnect
\* events, every sid in session_presence[s] is the sid of a connected
\* student whose session is s, and the sid of every connected student is
\* in the presence set of the student's session.
C30_PresenceMatchesConnectedStudents ==
    entry = "gateway" =>
        /\ \A s \in DOMAIN session_presence :
              \A sid \in session_presence[s] :
                  /\ sid \in ConnectedStudents
                  /\ TheVal(hist.client[sid]).session_id = s
        /\ \A sid \in ConnectedStudents :
              /\ TheVal(hist.client[sid]).session_id \in DOMAIN session_presence
              /\ sid \in session_presence[TheVal(hist.client[sid]).session_id]

\* a student is connected to a session another student has left
C30_Witness ==
    /\ entry = "gateway"
    /\ Cardinality(ConnectedStudents) = 1
    /\ \E s \in DOMAIN session_presence : Cardinality(session_presence[s]) = 1
    /\ Cardinality(DOMAIN student_nicknames) = 2

====
